---- MODULE Spec2Model ----
(***************************************************************************)
(* Model of the 2048 server: the board engine (package game), the board    *)
(* type (package models) and the move / new_game command handlers of a     *)
(* connection (package websocket).                                         *)
(***************************************************************************)
EXTENDS Integers, Sequences, FiniteSets, TLC

(***************************************************************************)
(* Bounds of the model.                                                    *)
(***************************************************************************)
\* Input boards of SpecEngine hold tiles 2^1 .. 2^MaxExp.
MaxExp == 1
\* rng.Intn(n) is explored for the results 0 .. min(n, MaxRand) - 1.
MaxRand == 2
\* Spec explores a new_game after fewer than MaxCmds commands and a move after
\* at most MaxCmds commands.
MaxCmds == 1
\* Spec explores MaxConns connections after the first one.
MaxConns == 1
\* SpecHub explores one connection of the user, and NumConns connections open
\* at the same time.
NumConns == 2
\* The read pump of a connection that is alone reads MaxFrames frames; those of
\* NumConns connections read one frame each.
MaxFrames == 2
\* The capacity of client.send explored by SpecHub (256 in HandleWebSocket).
QueueCap == 1

(***************************************************************************)
(* package models                                                          *)
(***************************************************************************)
BoardSize == 4
VictoryTile == 16384

Idx == 0 .. (BoardSize - 1)

DirectionUp == "up"
DirectionDown == "down"
DirectionLeft == "left"
DirectionRight == "right"
Directions == <<DirectionUp, DirectionDown, DirectionLeft, DirectionRight>>

GameModeClassic == "classic"
GameModeChallenge == "challenge"

\* A nil *DisabledCell.
NilCell == [Row |-> -1, Col |-> -1]

DisabledCell(row, col) == [Row |-> row, Col |-> col]

NewBoard == [r \in Idx |-> [c \in Idx |-> 0]]

InRange(row, col) == row >= 0 /\ row < BoardSize /\ col >= 0 /\ col < BoardSize

GetCell(b, row, col) == IF InRange(row, col) THEN b[row][col] ELSE 0

SetCell(b, row, col, value) ==
    IF InRange(row, col) THEN [b EXCEPT ![row][col] = value] ELSE b

IsEmpty(b, row, col) == b[row][col] = 0

\* The cells in the order of the two nested loops (i outer, j inner).
CellOrder == [k \in 1 .. (BoardSize * BoardSize) |->
                 <<(k - 1) \div BoardSize, (k - 1) % BoardSize>>]

GetEmptyCells(b) ==
    LET Empty(pos) == IsEmpty(b, pos[1], pos[2])
    IN  SelectSeq(CellOrder, Empty)

\* A slip in GetEmptyCellsExcluding: the disabled cell is not left out.
GetEmptyCellsIncluding(b, disabledCell) == GetEmptyCells(b)

GetEmptyCellsExcluding(b, disabledCell) ==
    LET Keep(pos) == /\ IsEmpty(b, pos[1], pos[2])
                     /\ ~(/\ disabledCell # NilCell
                          /\ disabledCell.Row = pos[1]
                          /\ disabledCell.Col = pos[2])
    IN  SelectSeq(CellOrder, Keep)

IsDisabledCell(row, col, disabledCell) ==
    IF disabledCell = NilCell
    THEN FALSE
    ELSE disabledCell.Row = row /\ disabledCell.Col = col

HasVictoryTile(b) == \E i \in Idx : \E j \in Idx : b[i][j] = VictoryTile

\* A slip in IsFull: the test of the number of empty cells inverted.
IsFullInverted(b) == Len(GetEmptyCells(b)) # 0

IsFull(b) == Len(GetEmptyCells(b)) = 0

(***************************************************************************)
(* package game: mergeLine and the four classic moves                      *)
(***************************************************************************)
RECURSIVE mergeFrom(_, _)
\* The loop of mergeLine from index i (1-based here, 0-based in the code).
mergeFrom(line, i) ==
    IF i > Len(line)
    THEN [line |-> <<>>, score |-> 0]
    ELSE IF i + 1 <= Len(line) /\ line[i] = line[i + 1]
         THEN LET merged == line[i] * 2
                  rest == mergeFrom(line, i + 2)
              IN  [line |-> <<merged>> \o rest.line, score |-> merged + rest.score]
         ELSE LET rest == mergeFrom(line, i + 1)
              IN  [line |-> <<line[i]>> \o rest.line, score |-> rest.score]

\* A slip in mergeLine: the line is merged again after the first pass, so a
\* tile produced by a merge merges once more.
mergeLineChain(line) ==
    LET first == mergeFrom(line, 1)
        second == mergeFrom(first.line, 1)
    IN  [line |-> second.line, score |-> first.score + second.score]

RECURSIVE mergeFromNoSkip(_, _)
mergeFromNoSkip(line, i) ==
    IF i > Len(line)
    THEN [line |-> <<>>, score |-> 0]
    ELSE LET rest == mergeFromNoSkip(line, i + 1)
         IN  IF i + 1 <= Len(line) /\ line[i] = line[i + 1]
             THEN [line |-> <<line[i] * 2>> \o rest.line,
                   score |-> line[i] * 2 + rest.score]
             ELSE [line |-> <<line[i]>> \o rest.line, score |-> rest.score]

\* A slip in mergeLine: i advances by one after a merge, so the second tile
\* of the pair stays on the line.
mergeLineNoSkip(line) ==
    IF Len(line) <= 1
    THEN [line |-> line, score |-> 0]
    ELSE mergeFromNoSkip(line, 1)

mergeLine(line) ==
    IF Len(line) <= 1
    THEN [line |-> line, score |-> 0]
    ELSE mergeFrom(line, 1)

NonZero(v) == v # 0

\* Loop orders: ascending index, and descending index (BoardSize-1 down to 0).
Ascending == [k \in 1 .. BoardSize |-> k - 1]
Descending == [k \in 1 .. BoardSize |-> BoardSize - k]

\* The cell of line `fixed` at position p: a row when horiz, else a column.
CellAt(fixed, horiz, p) == IF horiz THEN <<fixed, p>> ELSE <<p, fixed>>

\* A slip in the classic moves: moved is set only when a merge scored.
classicLineMovedOnMerge(b, fixed, horiz, order) ==
    LET cells == [k \in 1 .. BoardSize |->
                     GetCell(b, CellAt(fixed, horiz, order[k])[1],
                                CellAt(fixed, horiz, order[k])[2])]
        merged == mergeLine(SelectSeq(cells, NonZero))
    IN  [vals |-> [k \in 1 .. BoardSize |->
                      IF k - 1 < Len(merged.line) THEN merged.line[k] ELSE 0],
         score |-> merged.score,
         moved |-> merged.score > 0]

\* One iteration of the outer loop of moveLeft/moveRight/moveUp/moveDown:
\* extract the non-zero values in scan order, merge, write back. vals[k+1] is
\* the newValue of loop index k, written to the cell at position order[k+1].
classicLine(b, fixed, horiz, order) ==
    LET cells == [k \in 1 .. BoardSize |->
                     GetCell(b, CellAt(fixed, horiz, order[k])[1],
                                CellAt(fixed, horiz, order[k])[2])]
        line == SelectSeq(cells, NonZero)
        merged == mergeLine(line)
        vals == [k \in 1 .. BoardSize |->
                    IF k - 1 < Len(merged.line) THEN merged.line[k] ELSE 0]
    IN  [vals |-> vals,
         score |-> merged.score,
         moved |-> \E k \in 1 .. BoardSize : cells[k] # vals[k]]

RECURSIVE SumScores(_, _)
SumScores(res, n) == IF n < 0 THEN 0 ELSE res[n].score + SumScores(res, n - 1)

PosIn(order, p) == CHOOSE k \in 1 .. BoardSize : order[k] = p

moveClassic(b, horiz, order) ==
    LET res == [f \in Idx |-> classicLine(b, f, horiz, order)]
    IN  [board |-> [r \in Idx |-> [c \in Idx |->
                       IF horiz
                       THEN res[r].vals[PosIn(order, c)]
                       ELSE res[c].vals[PosIn(order, r)]]],
         scoreGained |-> SumScores(res, BoardSize - 1),
         moved |-> \E f \in Idx : res[f].moved]

moveLeft(b) == moveClassic(b, TRUE, Ascending)

moveRight(b) == moveClassic(b, TRUE, Descending)

moveUp(b) == moveClassic(b, FALSE, Ascending)

\* A slip in moveDown: the column is read and written from the top.
moveDownFromTop(b) == moveClassic(b, FALSE, Ascending)

moveDown(b) == moveClassic(b, FALSE, Descending)

(***************************************************************************)
(* package game: the moves with a disabled cell                            *)
(***************************************************************************)
\* The block "place merged tiles back / clear remaining positions" applied to
\* the tiles collected so far (line, positions) of line `fixed`. acc is the
\* board being rewritten with the running scoreGained and moved. cmpIndex is
\* TRUE for moveLeftWithDisabled, which compares positions[i] (a column
\* index) with the cell's value; the other three compare the cell with val.
placeBack(acc, fixed, horiz, positions, line, cmpIndex) ==
    LET merged == mergeLine(line)
        n == Len(merged.line)
        Cell(p) == GetCell(acc.board, CellAt(fixed, horiz, p)[1],
                                      CellAt(fixed, horiz, p)[2])
        placedMoved == \E i \in 1 .. n :
                          IF cmpIndex
                          THEN positions[i] # Cell(positions[i])
                          ELSE Cell(positions[i]) # merged.line[i]
        clearedMoved == \E i \in (n + 1) .. Len(positions) : Cell(positions[i]) # 0
        NewVal(r, c) ==
            LET p == IF horiz THEN c ELSE r
                f == IF horiz THEN r ELSE c
            IN  IF f = fixed /\ \E i \in 1 .. Len(positions) : positions[i] = p
                THEN LET i == CHOOSE j \in 1 .. Len(positions) : positions[j] = p
                     IN  IF i <= n THEN merged.line[i] ELSE 0
                ELSE acc.board[r][c]
    IN  [board |-> [r \in Idx |-> [c \in Idx |-> NewVal(r, c)]],
         scoreGained |-> acc.scoreGained + merged.score,
         moved |-> acc.moved \/ placedMoved \/ clearedMoved]

RECURSIVE scanWithDisabled(_, _, _, _, _, _, _, _, _)
\* The inner loop over the cells of line `fixed`, at loop step k of `order`.
scanWithDisabled(acc, fixed, horiz, order, k, line, positions, disabledCell, cmpIndex) ==
    IF k > BoardSize
    THEN IF Len(line) > 0
         THEN placeBack(acc, fixed, horiz, positions, line, cmpIndex)
         ELSE acc
    ELSE LET p == order[k]
             row == CellAt(fixed, horiz, p)[1]
             col == CellAt(fixed, horiz, p)[2]
         IN  IF IsDisabledCell(row, col, disabledCell)
             THEN scanWithDisabled(
                      IF Len(line) > 0
                      THEN placeBack(acc, fixed, horiz, positions, line, cmpIndex)
                      ELSE acc,
                      fixed, horiz, order, k + 1, <<>>, <<>>, disabledCell, cmpIndex)
             ELSE IF GetCell(acc.board, row, col) # 0
                  THEN scanWithDisabled(acc, fixed, horiz, order, k + 1,
                           Append(line, GetCell(acc.board, row, col)),
                           Append(positions, p), disabledCell, cmpIndex)
                  ELSE scanWithDisabled(acc, fixed, horiz, order, k + 1,
                           line, positions, disabledCell, cmpIndex)

RECURSIVE linesWithDisabled(_, _, _, _, _, _)
\* The outer loop over the rows (columns) fixed .. BoardSize-1.
linesWithDisabled(acc, fixed, horiz, order, disabledCell, cmpIndex) ==
    IF fixed >= BoardSize
    THEN acc
    ELSE linesWithDisabled(
             scanWithDisabled(acc, fixed, horiz, order, 1, <<>>, <<>>,
                              disabledCell, cmpIndex),
             fixed + 1, horiz, order, disabledCell, cmpIndex)

StartOf(b) == [board |-> b, scoreGained |-> 0, moved |-> FALSE]

moveLeftWithDisabled(b, disabledCell) ==
    linesWithDisabled(StartOf(b), 0, TRUE, Ascending, disabledCell, TRUE)

moveRightWithDisabled(b, disabledCell) ==
    IF disabledCell = NilCell
    THEN moveRight(b)
    ELSE linesWithDisabled(StartOf(b), 0, TRUE, Descending, disabledCell, FALSE)

moveUpWithDisabled(b, disabledCell) ==
    IF disabledCell = NilCell
    THEN moveUp(b)
    ELSE linesWithDisabled(StartOf(b), 0, FALSE, Ascending, disabledCell, FALSE)

moveDownWithDisabled(b, disabledCell) ==
    IF disabledCell = NilCell
    THEN moveDown(b)
    ELSE linesWithDisabled(StartOf(b), 0, FALSE, Descending, disabledCell, FALSE)

(***************************************************************************)
(* package game: spawn, Move, MoveWithDisabledCell, terminal checks        *)
(***************************************************************************)
\* The random source: r is the result of rng.Intn(len(emptyCells)) and four
\* is the outcome of rng.Float32() < 0.1.
\* The draws a call makes when it spawns into one of n empty cells: none is
\* made (one fixed pair stands for it) when there is no spawn.
Draws(spawns, n, rands) ==
    IF spawns /\ n > 0
    THEN {r \in rands : r < n} \X BOOLEAN
    ELSE {<<0, FALSE>>}

TileValue(four) == IF four THEN 4 ELSE 2

addRandomTile(b, r, four) ==
    LET emptyCells == GetEmptyCells(b)
    IN  IF Len(emptyCells) = 0
        THEN b
        ELSE LET pos == emptyCells[r + 1]
             IN  SetCell(b, pos[1], pos[2], TileValue(four))

addRandomTileExcluding(b, disabledCell, r, four) ==
    LET emptyCells == GetEmptyCellsExcluding(b, disabledCell)
    IN  IF Len(emptyCells) = 0
        THEN b
        ELSE LET cell == emptyCells[r + 1]
             IN  SetCell(b, cell[1], cell[2], TileValue(four))

\* The switch of Move: the slide/merge of the copy, before the spawn.
slideClassic(b, direction) ==
    CASE direction = DirectionUp -> moveUp(b)
      [] direction = DirectionDown -> moveDown(b)
      [] direction = DirectionLeft -> moveLeft(b)
      [] direction = DirectionRight -> moveRight(b)
      [] OTHER -> StartOf(b)

\* The switch of MoveWithDisabledCell.
slideWithDisabled(b, direction, disabledCell) ==
    CASE direction = DirectionUp -> moveUpWithDisabled(b, disabledCell)
      [] direction = DirectionDown -> moveDownWithDisabled(b, disabledCell)
      [] direction = DirectionLeft -> moveLeftWithDisabled(b, disabledCell)
      [] direction = DirectionRight -> moveRightWithDisabled(b, disabledCell)
      [] OTHER -> StartOf(b)

\* The end of Move, after the switch has produced s: the spawn and the
\* return. slid is the board after the switch, newBoard the returned board.
spawnAfterMove(s, r, four) ==
    [slid |-> s.board,
     newBoard |-> IF s.moved THEN addRandomTile(s.board, r, four) ELSE s.board,
     scoreGained |-> s.scoreGained,
     moved |-> s.moved]

Move(b, direction, r, four) ==
    spawnAfterMove(slideClassic(b, direction), r, four)

\* The end of MoveWithDisabledCell, after the switch has produced s.
spawnAfterMoveWithDisabled(s, disabledCell, r, four) ==
    [slid |-> s.board,
     newBoard |-> IF s.moved
                  THEN addRandomTileExcluding(s.board, disabledCell, r, four)
                  ELSE s.board,
     scoreGained |-> s.scoreGained,
     moved |-> s.moved]

MoveWithDisabledCell(b, direction, disabledCell, r, four) ==
    spawnAfterMoveWithDisabled(slideWithDisabled(b, direction, disabledCell),
                               disabledCell, r, four)

\* The moved flag does not depend on the random source, so the trial moves
\* are evaluated with one draw.
IsGameOver(b) ==
    IF ~IsFull(b)
    THEN FALSE
    ELSE ~\E k \in 1 .. Len(Directions) : Move(b, Directions[k], 0, FALSE).moved

IsGameOverWithDisabledCell(b, disabledCell) ==
    IF Len(GetEmptyCellsExcluding(b, disabledCell)) > 0
    THEN FALSE
    ELSE ~\E k \in 1 .. Len(Directions) :
             MoveWithDisabledCell(b, Directions[k], disabledCell, 0, FALSE).moved

\* A slip in IsVictory, after the comment of the source ("8192 tile"): the
\* tile of half the value counts as the victory tile.
IsVictoryAt8192(b) == \E i \in Idx : \E j \in Idx : b[i][j] = VictoryTile \div 2

IsVictory(b) == HasVictoryTile(b)

generateRandomDisabledCell(row, col) == DisabledCell(row, col)

NewGame(r1, four1, r2, four2) ==
    addRandomTile(addRandomTile(NewBoard, r1, four1), r2, four2)

\* A slip in NewGameWithMode: the two tiles are spawned with addRandomTile,
\* which does not know the disabled cell.
NewGameWithModeUnaware(gameMode, row, col, r1, four1, r2, four2) ==
    [board |-> NewGame(r1, four1, r2, four2),
     disabledCell |-> IF gameMode = GameModeChallenge
                      THEN generateRandomDisabledCell(row, col)
                      ELSE NilCell]

NewGameWithMode(gameMode, row, col, r1, four1, r2, four2) ==
    LET disabledCell == IF gameMode = GameModeChallenge
                        THEN generateRandomDisabledCell(row, col)
                        ELSE NilCell
    IN  [board |-> addRandomTileExcluding(
                       addRandomTileExcluding(NewBoard, disabledCell, r1, four1),
                       disabledCell, r2, four2),
         disabledCell |-> disabledCell]

(***************************************************************************)
(* State                                                                   *)
(***************************************************************************)
VARIABLES
    gameState,     \* the session after the user's last accepted command, as the
                   \* handler held it when it answered (NoGame before the first)
    call,          \* the last call of the engine: its arguments and results
    reply,         \* type or error message of the last frame of a command handler
    nCmds,         \* number of commands handled so far
    hasCache,      \* hub.cache != nil
    session,       \* the cache entry game:session:<userID>: <<>> or <<its JSON>>
    leaderboards,  \* the leaderboard types with a cache entry leaderboard:<type>
    games,         \* the user's rows of table games, least recently updated first
    gameID,        \* client.gameID (0 is uuid.Nil)
    send,          \* the frames enqueued on client.send since the connection opened
    pending,       \* the goroutines started and not yet run
    nConns,        \* number of connections opened after the first one
    replaced,      \* history: the ids of the sessions a new_game command replaced
    cmd,           \* history: the type of the last command handled and whether
                   \* the writes of its handler to the cache and to the store
                   \* succeeded
    clients,       \* hub.clients: the connections in the hub's map
    mutex,         \* hub.mutex: the goroutine holding it in write mode and the
                   \* goroutines holding it in read mode
    hub,           \* the position of the goroutine Hub.Run and the client it
                   \* has received
    conn           \* the connections of SpecHub: for each one the Client, its
                   \* socket and the positions of its goroutines

vars == <<gameState, call, reply, nCmds, hasCache, session, leaderboards, games,
          gameID, send, pending, nConns, replaced, cmd, clients, mutex, hub, conn>>

\* The hub and the goroutines of its connections, left alone by the
\* specifications of one connection with atomic handlers.
connVars == <<clients, mutex, hub, conn>>

\* The state outside the engine calls, left alone by SpecEngine.
hubVars == <<hasCache, session, leaderboards, games, gameID, send, pending, nConns,
             replaced, cmd, connVars>>

\* No session: a nil *GameState (its ID is uuid.Nil).
NoGame ==
    [ID |-> 0, Board |-> NewBoard, Score |-> 0, GameOver |-> FALSE,
     Victory |-> FALSE, GameMode |-> GameModeClassic, DisabledCell |-> NilCell]

NoCall ==
    [op |-> "none", board |-> NewBoard, direction |-> "none",
     disabledCell |-> NilCell, slid |-> NewBoard, newBoard |-> NewBoard,
     scoreGained |-> 0, moved |-> FALSE, over |-> FALSE]

CallOf(op, b, direction, disabledCell, res, over) ==
    [op |-> op, board |-> b, direction |-> direction,
     disabledCell |-> disabledCell, slid |-> res.slid, newBoard |-> res.newBoard,
     scoreGained |-> res.scoreGained, moved |-> res.moved, over |-> over]

ReplyNone == "none"
ReplyGameState == "game_state"
ErrInvalidDirection == "Invalid direction"
ErrGetState == "Failed to get game state"
ErrNoGame == "No active game found. Start a new game first."
ErrFinished == "Game is already finished"
ErrNoMove == "Invalid move - no tiles moved"
ErrCreate == "Failed to create new game"

\* The outcomes of the storage calls of one handler: a field is FALSE when
\* the handler's calls of that kind return an error (cacheGet: reads of the
\* cache, cacheSet: its writes and deletes, dbRead: reads of the database,
\* dbWrite: its writes).
AllUp == [cacheGet |-> TRUE, cacheSet |-> TRUE, dbRead |-> TRUE, dbWrite |-> TRUE]

Outcomes == [cacheGet : BOOLEAN, cacheSet : BOOLEAN, dbRead : BOOLEAN, dbWrite : BOOLEAN]

\* What is kept of the last command: its type and the outcomes of the writes
\* of its handler.
NoCmd == [type |-> "none", cacheSet |-> TRUE, dbWrite |-> TRUE]

CmdOf(type, up) == [type |-> type, cacheSet |-> up.cacheSet, dbWrite |-> up.dbWrite]

\* hub.mutex unlocked.
NoOne == <<"none", 0>>

NoLock == [writer |-> NoOne, readers |-> {}]

\* Hub.Run at position pc, with the client received from a channel.
HubAt(pc, client) == [pc |-> pc, client |-> client]

\* The draws of the random source that are explored.
RandIdx == 0 .. (MaxRand - 1)

DirectionSet == {Directions[k] : k \in 1 .. Len(Directions)}

LeaderboardTypes == {"daily", "weekly", "monthly", "all"}

(***************************************************************************)
(* package cache: the game session entry of the user                       *)
(***************************************************************************)
\* json.Marshal of a models.GameState (RedisCache.Set): disabled_cell has
\* omitempty and is left out for a nil pointer.
MarshalGameState(gs) ==
    [id |-> gs.ID, board |-> gs.Board, score |-> gs.Score,
     game_over |-> gs.GameOver, victory |-> gs.Victory, game_mode |-> gs.GameMode,
     disabled_cell |-> IF gs.DisabledCell = NilCell
                       THEN <<>>
                       ELSE <<[row |-> gs.DisabledCell.Row,
                               col |-> gs.DisabledCell.Col]>>]

\* json.Unmarshal into a models.GameState (RedisCache.Get).
UnmarshalGameState(data) ==
    [ID |-> data.id, Board |-> data.board, Score |-> data.score,
     GameOver |-> data.game_over, Victory |-> data.victory,
     GameMode |-> data.game_mode,
     DisabledCell |-> IF data.disabled_cell = <<>>
                      THEN NilCell
                      ELSE DisabledCell(data.disabled_cell[1].row,
                                        data.disabled_cell[1].col)]

\* RedisCache.SetGameSession: the new value of the entry.
SetGameSession(gs) == <<MarshalGameState(gs)>>

\* RedisCache.GetGameSession: err is set when the key is not found.
GetGameSession(entry) ==
    IF entry = <<>>
    THEN [game |-> NoGame, err |-> TRUE]
    ELSE [game |-> UnmarshalGameState(entry[1]), err |-> FALSE]

(***************************************************************************)
(* package database: table games                                           *)
(***************************************************************************)
\* GormGame.FromGameState.
FromGameState(gs) ==
    [ID |-> gs.ID, Board |-> gs.Board, Score |-> gs.Score,
     GameOver |-> gs.GameOver, Victory |-> gs.Victory, GameMode |-> gs.GameMode,
     DisabledCell |-> gs.DisabledCell]

\* GormGame.ToGameState.
ToGameState(gg) ==
    [ID |-> gg.ID, Board |-> gg.Board, Score |-> gg.Score,
     GameOver |-> gg.GameOver, Victory |-> gg.Victory, GameMode |-> gg.GameMode,
     DisabledCell |-> gg.DisabledCell]

RowsWithID(rows, id) == {k \in 1 .. Len(rows) : rows[k].ID = id}

WithoutRow(rows, k) == [j \in 1 .. (Len(rows) - 1) |-> IF j < k THEN rows[j] ELSE rows[j + 1]]

\* GormDB.CreateGame: the primary key rejects a second row with the same id.
CreateGame(rows, gs) ==
    IF RowsWithID(rows, gs.ID) # {}
    THEN [games |-> rows, err |-> TRUE]
    ELSE [games |-> Append(rows, FromGameState(gs)), err |-> FALSE]

\* GormDB.UpdateGame: sets board, score, game_over, victory and updated_at of
\* the row with the id; no row affected is an error.
UpdateGame(rows, gs) ==
    IF RowsWithID(rows, gs.ID) = {}
    THEN [games |-> rows, err |-> TRUE]
    ELSE LET k == CHOOSE j \in RowsWithID(rows, gs.ID) : TRUE
             gg == FromGameState(gs)
         IN  [games |-> Append(WithoutRow(rows, k),
                               [rows[k] EXCEPT !.Board = gg.Board,
                                               !.Score = gs.Score,
                                               !.GameOver = gs.GameOver,
                                               !.Victory = gs.Victory]),
              err |-> FALSE]

\* GormDB.GetGame: record not found is an error.
GetGame(rows, id) ==
    IF RowsWithID(rows, id) = {}
    THEN [game |-> NoGame, err |-> TRUE]
    ELSE [game |-> ToGameState(rows[CHOOSE j \in RowsWithID(rows, id) : TRUE]),
          err |-> FALSE]

\* GormDB.GetUserActiveGame: the most recently updated row that is neither
\* game_over nor victory; nil when there is none.
GetUserActiveGame(rows) ==
    LET active == {k \in 1 .. Len(rows) : ~rows[k].GameOver /\ ~rows[k].Victory}
    IN  IF active = {}
        THEN NoGame
        ELSE ToGameState(rows[CHOOSE k \in active : \A j \in active : j <= k])

(***************************************************************************)
(* package websocket: the frames of a connection and the session lookup    *)
(***************************************************************************)
\* The game_state frame of handleMove and handleNewGame (models.GameResponse).
GameStateFrame(gs) ==
    [type |-> "game_state", message |-> "", board |-> gs.Board, score |-> gs.Score,
     gameOver |-> gs.GameOver, victory |-> gs.Victory, gameMode |-> gs.GameMode,
     disabledCell |-> gs.DisabledCell]

\* The game_state frame of Hub.sendCurrentGameState: game mode and disabled
\* cell are not filled in.
ResumeFrame(gs) ==
    [GameStateFrame(gs) EXCEPT !.gameMode = "", !.disabledCell = NilCell]

\* Client.sendError: the error frame (models.ErrorResponse).
ErrorFrame(errorMessage) ==
    [type |-> "error", message |-> errorMessage, board |-> NewBoard, score |-> 0,
     gameOver |-> FALSE, victory |-> FALSE, gameMode |-> "",
     disabledCell |-> NilCell]

\* A slip in sendMessage: the frame is dropped as if the queue were full.
sendMessageQueueFull(queue, frame) == queue

\* Client.sendMessage on a queue with room (its capacity is 256 frames and
\* writePump drains it).
sendMessage(queue, frame) == Append(queue, frame)

\* Client.getCurrentGameState: cache first, then the store by the client's
\* game id, or the user's active game when the client has none. A store hit
\* is written back to the cache. The result holds the new values of
\* client.gameID and of the cache entry. A failed read of the cache counts as
\* a miss, a failed write-back is logged, a failed read of the store is the
\* error returned.
getCurrentGameStateOf(id, up) ==
    LET hit == GetGameSession(session)
    IN  IF hasCache /\ up.cacheGet /\ ~hit.err
        THEN [gameState |-> hit.game, err |-> FALSE, gameID |-> hit.game.ID,
              session |-> session]
        ELSE IF ~up.dbRead
        THEN [gameState |-> NoGame, err |-> TRUE, gameID |-> id,
              session |-> session]
        ELSE IF id = 0
        THEN LET active == GetUserActiveGame(games)
             IN  [gameState |-> active, err |-> FALSE,
                  gameID |-> IF active # NoGame THEN active.ID ELSE id,
                  session |-> IF active # NoGame /\ hasCache /\ up.cacheSet
                              THEN SetGameSession(active)
                              ELSE session]
        ELSE LET byID == GetGame(games, id)
             IN  [gameState |-> byID.game, err |-> byID.err, gameID |-> id,
                  session |-> IF ~byID.err /\ hasCache /\ up.cacheSet
                              THEN SetGameSession(byID.game)
                              ELSE session]

\* The lookup of the connection of Spec.
getCurrentGameStateWith(up) == getCurrentGameStateOf(gameID, up)

\* The lookup when every storage call succeeds.
getCurrentGameState == getCurrentGameStateWith(AllUp)

\* A full board on which no classic move changes anything.
Checkerboard == [r \in Idx |-> [c \in Idx |-> IF (r + c) % 2 = 0 THEN 2 ELSE 4]]

\* A session never holds a tile on its disabled cell.
InputSession(b, disabledCell) ==
    [ID |-> 1,
     Board |-> IF disabledCell = NilCell
               THEN b
               ELSE SetCell(b, disabledCell.Row, disabledCell.Col, 0),
     Score |-> 0, GameOver |-> FALSE, Victory |-> FALSE,
     GameMode |-> IF disabledCell = NilCell
                  THEN GameModeClassic
                  ELSE GameModeChallenge,
     DisabledCell |-> disabledCell]

\* A classic session one move from the end: moving left leaves one empty
\* cell, and the game is over when the spawned tile is a 4.
NearGameOver ==
    InputSession([Checkerboard EXCEPT ![0] = [c \in Idx |-> IF c = 0 THEN 0
                                                           ELSE Checkerboard[0][c - 1]]],
                 NilCell)

\* A classic session one move from victory: two tiles of VictoryTile \div 2
\* side by side, with the least score that builds them.
NearVictory ==
    [InputSession([NewBoard EXCEPT ![0] = [c \in Idx |-> IF c < 2
                                                         THEN VictoryTile \div 2
                                                         ELSE 0]],
                  NilCell)
     EXCEPT !.Score = 22 * (VictoryTile \div 2)]

\* A classic session as an earlier new_game command of the user created it:
\* two tiles 2 side by side.
Fresh == InputSession(NewGame(0, FALSE, 0, FALSE), NilCell)

\* The sessions found in the cache when the first connection opens: sessions
\* live in the cache from new_game to their end.
CachedSessions == {Fresh, NearGameOver, NearVictory}

\* The sessions found in the store when the first connection opens and there
\* is no cache: no move of an unfinished session is written to the store.
StoredSessions == {Fresh}

(***************************************************************************)
(* Spec: the connections of one user, their new_game and move commands,    *)
(* the cache and the store                                                 *)
(***************************************************************************)
Init ==
    /\ hasCache \in BOOLEAN
    /\ gameState \in {NoGame} \cup (IF hasCache THEN CachedSessions ELSE StoredSessions)
    /\ call = NoCall
    /\ reply = ReplyNone
    /\ nCmds = 0
    /\ session = IF hasCache /\ gameState # NoGame
                 THEN SetGameSession(gameState)
                 ELSE <<>>
    /\ leaderboards = IF hasCache THEN LeaderboardTypes ELSE {}
    /\ games = IF ~hasCache /\ gameState # NoGame
               THEN CreateGame(<<>>, gameState).games
               ELSE <<>>
    /\ gameID = 0
    /\ send = <<>>
    /\ pending = {"sendCurrentGameState"}
    /\ nConns = 0
    /\ replaced = {}
    /\ cmd = NoCmd
    /\ clients = {}
    /\ mutex = NoLock
    /\ hub = HubAt("select", 0)
    /\ conn = <<>>

\* What the engine can return to handleNewGame under the explored draws of
\* the random source: (row, col) are the draws of generateRandomDisabledCell
\* and d1, d2 those of the two initial spawns (an index and the 2-or-4 choice).
SpawnDraws == RandIdx \X BOOLEAN

ClassicGames ==
    {[board |-> NewGame(d1[1], d1[2], d2[1], d2[2]), disabledCell |-> NilCell] :
        d1 \in SpawnDraws, d2 \in SpawnDraws}

ChallengeGames ==
    {NewGameWithMode(GameModeChallenge, cell[1], cell[2], d1[1], d1[2], d2[1], d2[2]) :
        cell \in (RandIdx \cap Idx) \X (RandIdx \cap Idx),
        d1 \in SpawnDraws, d2 \in SpawnDraws}

NewGameResults(mode) ==
    IF mode = GameModeChallenge THEN ChallengeGames ELSE ClassicGames

\* Client.handleNewGame: an unknown game mode falls back to classic; g is the
\* engine's result and the id is fresh (uuid.New). The session goes to the
\* cache, or to the store when there is no cache; when that write fails the
\* command ends with an error frame.
handleNewGameWith(mode, g, up) ==
    /\ nCmds < MaxCmds
    /\ LET gameMode == IF mode # GameModeClassic /\ mode # GameModeChallenge
                       THEN GameModeClassic
                       ELSE mode
           created == [ID |-> nCmds + 2, Board |-> g.board, Score |-> 0,
                       GameOver |-> FALSE, Victory |-> FALSE,
                       GameMode |-> gameMode, DisabledCell |-> g.disabledCell]
           saved == IF hasCache
                    THEN up.cacheSet
                    ELSE up.dbWrite /\ ~CreateGame(games, created).err
       IN  /\ g \in (IF gameMode = GameModeChallenge
                     THEN ChallengeGames
                     ELSE ClassicGames)
           /\ IF saved
              THEN /\ gameState' = created
                   /\ session' = IF hasCache THEN SetGameSession(created) ELSE session
                   /\ games' = IF hasCache
                               THEN games
                               ELSE CreateGame(games, created).games
                   /\ gameID' = created.ID
                   /\ send' = sendMessage(send, GameStateFrame(created))
                   /\ replaced' = IF gameState = NoGame
                                  THEN replaced
                                  ELSE replaced \cup {gameState.ID}
                   /\ reply' = ReplyGameState
              ELSE /\ reply' = ErrCreate
                   /\ send' = sendMessage(send, ErrorFrame(ErrCreate))
                   /\ UNCHANGED <<gameState, session, games, gameID, replaced>>
    /\ call' = NoCall
    /\ nCmds' = nCmds + 1
    /\ cmd' = CmdOf("new_game", up)
    /\ UNCHANGED <<hasCache, leaderboards, pending, nConns, connVars>>

\* Client.handleNewGame when every storage call succeeds.
handleNewGame(mode, g) == handleNewGameWith(mode, g, AllUp)

\* A slip in finished: victory is not tested.
finishedGameOverOnly(gs) == gs.GameOver

\* The test of Client.handleMove for a finished session.
finished(gs) == gs.GameOver \/ gs.Victory

\* A slip in rejectMove: the cache entry of the session is deleted.
rejectMoveDeleting(errorMessage, cur) ==
    /\ reply' = errorMessage
    /\ send' = Append(send, [type |-> "error", message |-> errorMessage,
                             board |-> NewBoard, score |-> 0, gameOver |-> FALSE,
                             victory |-> FALSE, gameMode |-> "",
                             disabledCell |-> NilCell])
    /\ gameID' = cur.gameID
    /\ session' = <<>>
    /\ UNCHANGED <<gameState, games, pending>>

\* Client.sendError in handleMove: the command ends with an error frame; cur
\* is the result of the lookup, if one was made.
rejectMove(errorMessage, cur) ==
    /\ reply' = errorMessage
    /\ send' = sendMessage(send, ErrorFrame(errorMessage))
    /\ gameID' = cur.gameID
    /\ session' = cur.session
    /\ UNCHANGED <<gameState, games, pending>>

\* A slip in saveIfFinished: the session is written to the store after every
\* accepted move.
saveAlways(rows, gs) ==
    IF UpdateGame(rows, gs).err
    THEN CreateGame(rows, gs).games
    ELSE UpdateGame(rows, gs).games

\* The store after the save of Client.handleMove: only a finished session is
\* written, by UpdateGame, or by CreateGame when no row was updated.
saveIfFinished(rows, gs) ==
    IF ~finished(gs)
    THEN rows
    ELSE IF UpdateGame(rows, gs).err
    THEN CreateGame(rows, gs).games
    ELSE UpdateGame(rows, gs).games

\* A slip in startUpdateLeaderboards: the goroutine is started after every
\* accepted move.
startUpdateLeaderboardsAlways(started, gs) == started \cup {"updateLeaderboards"}

\* The end of Client.handleMove: go c.updateLeaderboards(gameState) when the
\* game is finished.
startUpdateLeaderboards(started, gs) ==
    IF finished(gs) THEN started \cup {"updateLeaderboards"} ELSE started

\* A slip in cacheSession: the session is cached only when the store could
\* be written.
cacheSessionAfterStore(entry, gs, up) ==
    IF hasCache /\ up.cacheSet /\ up.dbWrite THEN SetGameSession(gs) ELSE entry

\* The cache entry after the save of Client.handleMove to the cache: a failed
\* SetGameSession is logged and the entry stays as it was.
cacheSession(entry, gs, up) ==
    IF hasCache /\ up.cacheSet THEN SetGameSession(gs) ELSE entry

\* The part of Client.handleMove after the session cur.gameState has been
\* looked up and found active: the engine call for direction with the draws
\* d, the update of the session, its save and the reply. A failed write to
\* the cache or to the store is logged and the handler goes on.
applyMoveWith(direction, withDisabled, s, d, cur, up) ==
    LET old == cur.gameState
        res == IF withDisabled
               THEN spawnAfterMoveWithDisabled(s, old.DisabledCell, d[1], d[2])
               ELSE spawnAfterMove(s, d[1], d[2])
        over == IF withDisabled
                THEN IsGameOverWithDisabledCell(res.newBoard, old.DisabledCell)
                ELSE IsGameOver(res.newBoard)
        op == IF withDisabled THEN "MoveWithDisabledCell" ELSE "Move"
        new == [old EXCEPT
                    !.Board = res.newBoard,
                    !.Score = old.Score + res.scoreGained,
                    !.Victory = old.Victory \/ IsVictory(res.newBoard),
                    !.GameOver = old.GameOver \/ over]
    IN  IF ~res.moved
        THEN /\ call' = CallOf(op, old.Board, direction, old.DisabledCell, res, FALSE)
             /\ rejectMove(ErrNoMove, cur)
        ELSE /\ call' = CallOf(op, old.Board, direction, old.DisabledCell, res, over)
             /\ gameState' = new
             /\ gameID' = cur.gameID
             /\ session' = cacheSession(cur.session, new, up)
             /\ games' = IF up.dbWrite THEN saveIfFinished(games, new) ELSE games
             /\ reply' = ReplyGameState
             /\ send' = sendMessage(send, GameStateFrame(new))
             /\ pending' = startUpdateLeaderboards(pending, new)

\* Client.handleMove; up holds the outcomes of its storage calls.
handleMoveWith(direction, up) ==
    /\ nCmds <= MaxCmds
    /\ nCmds' = nCmds + 1
    /\ cmd' = CmdOf("move", up)
    /\ UNCHANGED <<hasCache, leaderboards, nConns, replaced, connVars>>
    /\ IF direction \notin DirectionSet
       THEN /\ reply' = ErrInvalidDirection
            /\ send' = sendMessage(send, ErrorFrame(ErrInvalidDirection))
            /\ UNCHANGED <<gameState, call, session, games, gameID, pending>>
       ELSE LET cur == getCurrentGameStateWith(up)
                gs == cur.gameState
            IN  IF cur.err
                THEN rejectMove(ErrGetState, cur) /\ UNCHANGED call
                ELSE IF gs = NoGame
                THEN rejectMove(ErrNoGame, cur) /\ UNCHANGED call
                ELSE IF finished(gs)
                THEN rejectMove(ErrFinished, cur) /\ UNCHANGED call
                ELSE LET withDisabled == /\ gs.GameMode = GameModeChallenge
                                         /\ gs.DisabledCell # NilCell
                         s == IF withDisabled
                              THEN slideWithDisabled(gs.Board, direction,
                                                     gs.DisabledCell)
                              ELSE slideClassic(gs.Board, direction)
                         empties == IF withDisabled
                                    THEN GetEmptyCellsExcluding(s.board, gs.DisabledCell)
                                    ELSE GetEmptyCells(s.board)
                     IN  \E d \in Draws(s.moved, Len(empties), RandIdx) :
                             applyMoveWith(direction, withDisabled, s, d, cur, up)

\* Client.handleMove when every storage call succeeds.
handleMove(direction) == handleMoveWith(direction, AllUp)

\* Hub.sendCurrentGameState, started by Hub.Run when a client registers: the
\* cached session, or else the user's active game of the store (then written
\* to the cache), is pushed to the client.
\* A failed read of the cache counts as a miss, a failed read of the store
\* ends the goroutine, a failed write-back is logged.
sendCurrentGameStateWith(up) ==
    /\ "sendCurrentGameState" \in pending
    /\ pending' = pending \ {"sendCurrentGameState"}
    /\ LET hit == GetGameSession(session)
           cached == hasCache /\ up.cacheGet /\ ~hit.err
           active == IF up.dbRead THEN GetUserActiveGame(games) ELSE NoGame
           gs == IF cached THEN hit.game ELSE active
       IN  /\ session' = IF hasCache /\ up.cacheSet /\ ~cached /\ active # NoGame
                         THEN SetGameSession(active)
                         ELSE session
           /\ gameID' = IF gs # NoGame THEN gs.ID ELSE gameID
           /\ send' = IF gs # NoGame THEN sendMessage(send, ResumeFrame(gs)) ELSE send
    /\ UNCHANGED <<gameState, call, reply, nCmds, hasCache, leaderboards, games, nConns,
                   replaced, cmd, connVars>>

\* Hub.sendCurrentGameState when every storage call succeeds.
sendCurrentGameState == sendCurrentGameStateWith(AllUp)

\* Client.updateLeaderboards, started by handleMove when a game finishes; a
\* failed InvalidateLeaderboard is logged.
updateLeaderboardsWith(up) ==
    /\ "updateLeaderboards" \in pending
    /\ pending' = pending \ {"updateLeaderboards"}
    /\ leaderboards' = IF hasCache /\ up.cacheSet THEN {} ELSE leaderboards
    /\ UNCHANGED <<gameState, call, reply, nCmds, hasCache, session, games, gameID,
                   send, nConns, replaced, cmd, connVars>>

\* Client.updateLeaderboards when every cache call succeeds.
updateLeaderboards == updateLeaderboardsWith(AllUp)

\* The cache entry of the session is lost: its expiration of one hour runs
\* out.
expireGameSession ==
    /\ hasCache
    /\ session # <<>>
    /\ session' = <<>>
    /\ UNCHANGED <<gameState, call, reply, nCmds, hasCache, leaderboards, games,
                   gameID, send, pending, nConns, replaced, cmd, connVars>>

\* The connection is closed and Hub.HandleWebSocket opens the next one of the
\* user, once the push to the closed one has run: a new Client, registered.
HandleWebSocket ==
    /\ nConns < MaxConns
    /\ "sendCurrentGameState" \notin pending
    /\ nConns' = nConns + 1
    /\ gameID' = 0
    /\ send' = <<>>
    /\ pending' = pending \cup {"sendCurrentGameState"}
    /\ UNCHANGED <<gameState, call, reply, nCmds, hasCache, session, leaderboards,
                   games, replaced, cmd, connVars>>

Next ==
    \/ \E mode \in {GameModeClassic, GameModeChallenge, "unknown"} :
       \E g \in NewGameResults(mode) : handleNewGame(mode, g)
    \/ \E direction \in DirectionSet \cup {"diagonal"} : handleMove(direction)
    \/ sendCurrentGameState
    \/ updateLeaderboards
    \/ expireGameSession
    \/ HandleWebSocket

Spec == Init /\ [][Next]_vars

(***************************************************************************)
(* SpecFaults: one connection whose handlers and goroutines meet failing   *)
(* calls to the cache and to the store                                     *)
(***************************************************************************)
\* The engine's result for handleNewGame when every draw of the random
\* source is the first one.
FirstGame(mode) ==
    IF mode = GameModeChallenge
    THEN NewGameWithMode(GameModeChallenge, 0, 0, 0, FALSE, 0, FALSE)
    ELSE [board |-> NewGame(0, FALSE, 0, FALSE), disabledCell |-> NilCell]

NextFaults ==
    \/ \E mode \in {GameModeClassic, GameModeChallenge, "unknown"} :
       \E g \in {FirstGame(mode)} :
       \E up \in Outcomes : handleNewGameWith(mode, g, up)
    \/ \E direction \in {DirectionLeft, DirectionDown, "diagonal"} :
       \E up \in Outcomes : handleMoveWith(direction, up)
    \/ \E up \in Outcomes : sendCurrentGameStateWith(up)
    \/ \E up \in Outcomes : updateLeaderboardsWith(up)

SpecFaults == Init /\ [][NextFaults]_vars

(***************************************************************************)
(* SpecHub: the goroutines of the hub and of the connections of one user,  *)
(* step by step                                                            *)
(***************************************************************************)
Conns == 1 .. NumConns

\* The goroutines that take hub.mutex.
Run == <<"Run", 0>>

ReadPump(c) == <<"readPump", c>>

Push(c) == <<"sendCurrentGameState", c>>

\* An inbound frame: json is FALSE for bytes that json.Unmarshal rejects,
\* type is message.Type and arg the direction, game mode or leaderboard type
\* of message.Data.
Frame(json, type, arg) == [json |-> json, type |-> type, arg |-> arg]

NoFrame == Frame(TRUE, "none", "")

\* The move frames the peers send in SpecHub.
MoveFrames == {Frame(TRUE, "move", d) : d \in {DirectionLeft, DirectionDown}}

\* The frames the peer of a connection that is alone sends in SpecHub.
InboundFrames ==
    MoveFrames \cup {Frame(TRUE, "move", "diagonal"),
                     Frame(TRUE, "new_game", GameModeClassic),
                     Frame(TRUE, "get_leaderboard", "yearly"),
                     Frame(TRUE, "chat", ""),
                     Frame(FALSE, "", "")}

ErrFormat == "Invalid message format"
ErrUnknownType == "Unknown message type"
ErrLeaderboardType == "Invalid leaderboard type"

\* The frame of Hub.broadcastLeaderboardUpdate.
BroadcastFrame == [ErrorFrame("") EXCEPT !.type = "leaderboard_update"]

\* The Client made by Hub.HandleWebSocket, which waits to send it on
\* hub.register, with the positions of its goroutines and its socket:
\*   st      HandleWebSocket: "connecting" at h.register <- client, then "open"
\*   pump    readPump: "off", "read", "lookup", "save", "create", "reply",
\*           "sendLock", "sendLocked", "unregister", "done"
\*   in, cur, out   the frame being handled, the handler's gameState and the
\*           frame it is about to send
\*   push    sendCurrentGameState: "off", "lookup", "send", "sendLock",
\*           "sendLocked", "done"; pushed is its gameState
\*   lb      updateLeaderboards: "off" or "run"
\*   w       writePump: "off", "on", "done"
\*   send, closed   the channel client.send and whether it is closed
\*   sock    the socket: "open" or "closed"
\*   nRead, log     history: the number of frames read and, for each frame
\*           answered, its number, the answer and whether it was enqueued
NewClient ==
    [st |-> "connecting", pump |-> "off", in |-> NoFrame, cur |-> NoGame,
     out |-> <<>>, gameID |-> 0, send |-> <<>>, closed |-> FALSE, sock |-> "open",
     push |-> "off", pushed |-> NoGame, lb |-> "off", w |-> "off", nRead |-> 0,
     log |-> <<>>]

\* A connection that is never opened.
AbsentClient == [NewClient EXCEPT !.st = "absent"]

\* A connection after Hub.Run has registered it and sendCurrentGameState has
\* pushed session gs, which writePump has written to the socket.
EstablishedClient(gs) ==
    [NewClient EXCEPT !.st = "open", !.pump = "read", !.w = "on", !.push = "done",
                      !.gameID = gs.ID]

\* Connection 1 is the only one.
Alone == \A c \in Conns \ {1} : conn[c].st = "absent"

\* The variables of the connection of Spec, not used by SpecHub.
soloVars == <<gameState, call, reply, nCmds, gameID, send, pending, nConns, replaced, cmd>>

\* One connection that HandleWebSocket has just made, with or without a cached
\* session, or NumConns established connections of the user and a cached
\* session.
InitHub ==
    /\ hasCache = TRUE
    /\ conn \in {[c \in Conns |-> IF c = 1 THEN NewClient ELSE AbsentClient],
                 [c \in Conns |-> EstablishedClient(Fresh)]}
    /\ session \in IF Alone
                   THEN {<<>>, SetGameSession(Fresh), SetGameSession(NearVictory)}
                   ELSE {SetGameSession(Fresh)}
    /\ leaderboards = LeaderboardTypes
    /\ games = <<>>
    /\ clients = IF Alone THEN {} ELSE Conns
    /\ mutex = NoLock
    /\ hub = HubAt("select", 0)
    /\ gameState = NoGame
    /\ call = NoCall
    /\ reply = ReplyNone
    /\ nCmds = 0
    /\ gameID = 0
    /\ send = <<>>
    /\ pending = {}
    /\ nConns = 0
    /\ replaced = {}
    /\ cmd = NoCmd

\* The panics of the Go runtime that end the process.
PanicClose == "panic: close of closed channel"

PanicSend == "panic: send on closed channel"

\* The process has not panicked.
Alive == hub.pc \notin {PanicClose, PanicSend}

Panic(message) == hub' = HubAt(message, 0)

WithClient(c, r) == [conn EXCEPT ![c] = r]

\* The number of frames read so far by all read pumps.
FramesRead ==
    LET count[k \in 0 .. NumConns] == IF k = 0 THEN 0 ELSE count[k - 1] + conn[k].nRead
    IN  count[NumConns]

\* sync.RWMutex.
Lock(g) == [writer |-> g, readers |-> {}]

CanLock == mutex = NoLock

RLock(g) == [mutex EXCEPT !.readers = @ \cup {g}]

CanRLock == mutex.writer = NoOne

RUnlock(g) == [mutex EXCEPT !.readers = @ \ {g}]

Holds(g) == mutex.writer = g \/ g \in mutex.readers

\* Hub.Run receives the client that HandleWebSocket sends on hub.register;
\* HandleWebSocket goes on and starts writePump and readPump.
RunRegister(c) ==
    /\ Alive
    /\ hub.pc = "select"
    /\ conn[c].st = "connecting"
    /\ hub' = HubAt("register", c)
    /\ conn' = WithClient(c, [conn[c] EXCEPT !.st = "open", !.pump = "read", !.w = "on"])
    /\ UNCHANGED <<soloVars, hasCache, session, leaderboards, games, clients, mutex>>

\* Hub.Run: h.mutex.Lock() of the register and unregister cases.
RunLock ==
    /\ Alive
    /\ hub.pc \in {"register", "unregister"}
    /\ CanLock
    /\ mutex' = Lock(Run)
    /\ hub' = HubAt(IF hub.pc = "register" THEN "registerLocked" ELSE "unregisterLocked",
                    hub.client)
    /\ UNCHANGED <<soloVars, hasCache, session, leaderboards, games, clients, conn>>

\* A slip in registerUnlock: the mutex is kept while the push runs.
registerKeepLock(m) == m

\* Hub.Run: h.mutex.Unlock() after the insertion into the map.
registerUnlock(m) == NoLock

\* Hub.Run, register case: the client is inserted into the map, the mutex is
\* released and sendCurrentGameState is started.
RunRegisterInsert ==
    /\ Alive
    /\ hub.pc = "registerLocked"
    /\ clients' = clients \cup {hub.client}
    /\ mutex' = registerUnlock(mutex)
    /\ conn' = WithClient(hub.client, [conn[hub.client] EXCEPT !.push = "lookup"])
    /\ hub' = HubAt("select", 0)
    /\ UNCHANGED <<soloVars, hasCache, session, leaderboards, games>>

\* Client.readPump: ReadMessage fails, because the peer has closed the socket
\* or writePump has, and the loop ends. The peers of several connections
\* keep them open.
readError(c) ==
    /\ Alive
    /\ conn[c].pump = "read"
    /\ Alone \/ conn[c].sock = "closed"
    /\ conn' = WithClient(c, [conn[c] EXCEPT !.pump = "unregister"])
    /\ UNCHANGED <<soloVars, hasCache, session, leaderboards, games, clients, mutex, hub>>

\* Hub.Run receives the client that the deferred function of readPump sends
\* on hub.unregister; readPump closes the socket and ends.
RunUnregister(c) ==
    /\ Alive
    /\ hub.pc = "select"
    /\ conn[c].pump = "unregister"
    /\ hub' = HubAt("unregister", c)
    /\ conn' = WithClient(c, [conn[c] EXCEPT !.pump = "done", !.sock = "closed"])
    /\ UNCHANGED <<soloVars, hasCache, session, leaderboards, games, clients, mutex>>

\* Hub.Run, unregister case: a client still in the map is deleted and its
\* channel closed (closing a closed channel panics); the mutex is released.
RunUnregisterDelete ==
    /\ Alive
    /\ hub.pc = "unregisterLocked"
    /\ LET c == hub.client
       IN  IF c \in clients /\ conn[c].closed
           THEN Panic(PanicClose) /\ UNCHANGED <<clients, mutex, conn>>
           ELSE /\ clients' = clients \ {c}
                /\ conn' = IF c \in clients
                           THEN WithClient(c, [conn[c] EXCEPT !.closed = TRUE])
                           ELSE conn
                /\ mutex' = NoLock
                /\ hub' = HubAt("select", 0)
    /\ UNCHANGED <<soloVars, hasCache, session, leaderboards, games>>

\* The session after an accepted move of gs, or gs when no tile moves: the
\* engine call of Client.handleMove with the first draws of the random
\* source and the update of the session.
MoveSession(gs, direction) ==
    LET withDisabled == gs.GameMode = GameModeChallenge /\ gs.DisabledCell # NilCell
        res == IF withDisabled
               THEN MoveWithDisabledCell(gs.Board, direction, gs.DisabledCell, 0, FALSE)
               ELSE Move(gs.Board, direction, 0, FALSE)
        over == IF withDisabled
                THEN IsGameOverWithDisabledCell(res.newBoard, gs.DisabledCell)
                ELSE IsGameOver(res.newBoard)
    IN  [moved |-> res.moved,
         new |-> [gs EXCEPT !.Board = res.newBoard,
                            !.Score = gs.Score + res.scoreGained,
                            !.Victory = gs.Victory \/ IsVictory(res.newBoard),
                            !.GameOver = gs.GameOver \/ over]]

\* A slip in handleInline: the handler is started as a goroutine and readPump
\* goes back to its read.
handleSpawned(f, first) == "read"

\* The position of readPump after ReadMessage has returned frame f: the
\* handler of the frame runs in readPump itself.
handleInline(f, first) == first

\* A slip in protocolError: handleMessage without its default case, so that a
\* frame of an unknown type is handled as a new_game.
protocolErrorNoDefault(f) ==
    IF ~f.json THEN <<ErrFormat>>
    ELSE IF f.type = "move" /\ f.arg \notin DirectionSet THEN <<ErrInvalidDirection>>
    ELSE IF f.type = "get_leaderboard" /\ f.arg \notin LeaderboardTypes
    THEN <<ErrLeaderboardType>>
    ELSE <<>>

\* The message of sendError for a frame that readPump (json.Unmarshal),
\* handleMessage (the type), handleMove (the direction) or
\* handleGetLeaderboard (the leaderboard type) rejects, <<>> for other frames.
protocolError(f) ==
    IF ~f.json THEN <<ErrFormat>>
    ELSE IF f.type = "move"
    THEN IF f.arg \notin DirectionSet THEN <<ErrInvalidDirection>> ELSE <<>>
    ELSE IF f.type = "new_game" THEN <<>>
    ELSE IF f.type = "get_leaderboard"
    THEN IF f.arg \notin LeaderboardTypes THEN <<ErrLeaderboardType>> ELSE <<>>
    ELSE <<ErrUnknownType>>

\* Client.readPump reads frame f and Client.handleMessage dispatches it: a frame
\* that is not JSON, an unknown type, an invalid direction and an invalid
\* leaderboard type end in sendError; id is the uuid of a new game.
readMessage(c, f) ==
    /\ Alive
    /\ conn[c].pump = "read"
    /\ conn[c].sock = "open"
    /\ IF Alone
       THEN conn[c].nRead < MaxFrames /\ f \in InboundFrames
       ELSE conn[c].nRead < 1 /\ f \in MoveFrames
    /\ LET id == FramesRead + 2
           rejected == protocolError(f)
           first == IF rejected # <<>> THEN "reply"
                    ELSE IF f.type = "move" THEN "lookup"
                    ELSE "create"
       IN  /\ f.type = "get_leaderboard" => rejected # <<>>
           /\ conn' = WithClient(c, [conn[c] EXCEPT
                          !.nRead = @ + 1,
                          !.in = f,
                          !.cur = IF first = "create" THEN [NoGame EXCEPT !.ID = id]
                                  ELSE NoGame,
                          !.out = IF rejected # <<>> THEN <<ErrorFrame(rejected[1])>>
                                  ELSE <<>>,
                          !.pump = handleInline(f, first)])
    /\ UNCHANGED <<soloVars, hasCache, session, leaderboards, games, clients, mutex, hub>>

\* Client.handleMove up to the engine call: the lookup of the session, the
\* rejections and the move of the board.
moveLookup(c) ==
    /\ Alive
    /\ conn[c].pump = "lookup"
    /\ LET cur == getCurrentGameStateOf(conn[c].gameID, AllUp)
           gs == cur.gameState
           rejected == IF cur.err THEN <<ErrGetState>>
                       ELSE IF gs = NoGame THEN <<ErrNoGame>>
                       ELSE IF finished(gs) THEN <<ErrFinished>>
                       ELSE IF ~MoveSession(gs, conn[c].in.arg).moved THEN <<ErrNoMove>>
                       ELSE <<>>
       IN  /\ session' = cur.session
           /\ conn' = WithClient(c, [conn[c] EXCEPT
                          !.gameID = cur.gameID,
                          !.cur = IF rejected # <<>> THEN gs
                                  ELSE MoveSession(gs, conn[c].in.arg).new,
                          !.out = IF rejected # <<>> THEN <<ErrorFrame(rejected[1])>>
                                  ELSE <<>>,
                          !.pump = IF rejected # <<>> THEN "reply" ELSE "save"])
    /\ UNCHANGED <<soloVars, hasCache, leaderboards, games, clients, mutex, hub>>

\* Client.handleMove: the session is saved to the cache, and to the store when
\* the game is finished.
moveSave(c) ==
    /\ Alive
    /\ conn[c].pump = "save"
    /\ session' = cacheSession(session, conn[c].cur, AllUp)
    /\ games' = saveIfFinished(games, conn[c].cur)
    /\ conn' = WithClient(c, [conn[c] EXCEPT !.out = <<GameStateFrame(conn[c].cur)>>,
                                            !.pump = "reply"])
    /\ UNCHANGED <<soloVars, hasCache, leaderboards, clients, mutex, hub>>

\* Client.handleNewGame: the new session is saved to the cache, or to the
\* store when there is no cache.
newGameSave(c) ==
    /\ Alive
    /\ conn[c].pump = "create"
    /\ LET mode == conn[c].in.arg
           gameMode == IF mode # GameModeClassic /\ mode # GameModeChallenge
                       THEN GameModeClassic
                       ELSE mode
           g == FirstGame(gameMode)
           created == [ID |-> conn[c].cur.ID, Board |-> g.board, Score |-> 0,
                       GameOver |-> FALSE, Victory |-> FALSE,
                       GameMode |-> gameMode, DisabledCell |-> g.disabledCell]
       IN  /\ session' = IF hasCache THEN SetGameSession(created) ELSE session
           /\ games' = IF hasCache THEN games ELSE CreateGame(games, created).games
           /\ conn' = WithClient(c, [conn[c] EXCEPT !.gameID = created.ID,
                                                    !.cur = created,
                                                    !.out = <<GameStateFrame(created)>>,
                                                    !.pump = "reply"])
    /\ UNCHANGED <<soloVars, hasCache, leaderboards, clients, mutex, hub>>

\* go c.updateLeaderboards at the end of handleMove.
StartsLeaderboards(cl) ==
    /\ cl.in.type = "move"
    /\ cl.out # <<>>
    /\ cl.out[1].type = "game_state"
    /\ finished(cl.cur)

\* Client.sendMessage at the end of a handler: the frame is enqueued when the
\* channel has room; on a full channel the channel is closed and the mutex is
\* needed next; a send on a closed channel panics.
handlerReply(c) ==
    /\ Alive
    /\ conn[c].pump = "reply"
    /\ LET cl == conn[c]
           answer(sent) == [n |-> cl.nRead, frame |-> cl.out[1], sent |-> sent]
       IN  IF cl.closed
           THEN Panic(PanicSend) /\ UNCHANGED conn
           ELSE /\ hub' = hub
                /\ conn' = IF Len(cl.send) < QueueCap
                           THEN WithClient(c, [cl EXCEPT
                                    !.send = Append(@, cl.out[1]),
                                    !.log = Append(@, answer(TRUE)),
                                    !.lb = IF StartsLeaderboards(cl) THEN "run" ELSE @,
                                    !.in = NoFrame,
                                    !.cur = NoGame,
                                    !.out = <<>>,
                                    !.pump = "read"])
                           ELSE WithClient(c, [cl EXCEPT
                                    !.closed = TRUE,
                                    !.log = Append(@, answer(FALSE)),
                                    !.pump = "sendLock"])
    /\ UNCHANGED <<soloVars, hasCache, session, leaderboards, games, clients, mutex>>

\* Client.sendMessage, full channel: c.hub.mutex.Lock().
handlerSendLock(c) ==
    /\ Alive
    /\ conn[c].pump = "sendLock"
    /\ CanLock
    /\ mutex' = Lock(ReadPump(c))
    /\ conn' = WithClient(c, [conn[c] EXCEPT !.pump = "sendLocked"])
    /\ UNCHANGED <<soloVars, hasCache, session, leaderboards, games, clients, hub>>

\* Client.sendMessage, full channel: the client is deleted from the map and
\* the mutex released; the handler returns.
handlerSendDelete(c) ==
    /\ Alive
    /\ conn[c].pump = "sendLocked"
    /\ clients' = clients \ {c}
    /\ mutex' = NoLock
    /\ conn' = WithClient(c, [conn[c] EXCEPT
                   !.lb = IF StartsLeaderboards(conn[c]) THEN "run" ELSE @,
                   !.in = NoFrame,
                   !.cur = NoGame,
                   !.out = <<>>,
                   !.pump = "read"])
    /\ UNCHANGED <<soloVars, hasCache, session, leaderboards, games, hub>>

\* Hub.sendCurrentGameState: the lookup of the session to push.
pushLookup(c) ==
    /\ Alive
    /\ conn[c].push = "lookup"
    /\ LET hit == GetGameSession(session)
           cached == hasCache /\ ~hit.err
           active == GetUserActiveGame(games)
           gs == IF cached THEN hit.game ELSE active
       IN  /\ session' = IF hasCache /\ ~cached /\ active # NoGame
                         THEN SetGameSession(active)
                         ELSE session
           /\ conn' = WithClient(c, [conn[c] EXCEPT
                          !.pushed = gs,
                          !.push = IF gs # NoGame THEN "send" ELSE "done"])
    /\ UNCHANGED <<soloVars, hasCache, leaderboards, games, clients, mutex, hub>>

\* Hub.sendCurrentGameState: client.gameID is set to the session found, then
\* client.sendMessage of its frame.
pushSend(c) ==
    /\ Alive
    /\ conn[c].push = "send"
    /\ LET cl == conn[c]
       IN  IF cl.closed
           THEN Panic(PanicSend) /\ UNCHANGED conn
           ELSE /\ hub' = hub
                /\ conn' = IF Len(cl.send) < QueueCap
                           THEN WithClient(c, [cl EXCEPT
                                    !.gameID = cl.pushed.ID,
                                    !.send = Append(@, ResumeFrame(cl.pushed)),
                                    !.pushed = NoGame,
                                    !.push = "done"])
                           ELSE WithClient(c, [cl EXCEPT !.gameID = cl.pushed.ID,
                                                         !.closed = TRUE,
                                                         !.push = "sendLock"])
    /\ UNCHANGED <<soloVars, hasCache, session, leaderboards, games, clients, mutex>>

pushSendLock(c) ==
    /\ Alive
    /\ conn[c].push = "sendLock"
    /\ CanLock
    /\ mutex' = Lock(Push(c))
    /\ conn' = WithClient(c, [conn[c] EXCEPT !.push = "sendLocked"])
    /\ UNCHANGED <<soloVars, hasCache, session, leaderboards, games, clients, hub>>

pushSendDelete(c) ==
    /\ Alive
    /\ conn[c].push = "sendLocked"
    /\ clients' = clients \ {c}
    /\ mutex' = NoLock
    /\ conn' = WithClient(c, [conn[c] EXCEPT !.pushed = NoGame, !.push = "done"])
    /\ UNCHANGED <<soloVars, hasCache, session, leaderboards, games, hub>>

\* Client.updateLeaderboards of connection c.
invalidateLeaderboards(c) ==
    /\ Alive
    /\ conn[c].lb = "run"
    /\ leaderboards' = IF hasCache THEN {} ELSE leaderboards
    /\ conn' = WithClient(c, [conn[c] EXCEPT !.lb = "off"])
    /\ UNCHANGED <<soloVars, hasCache, session, games, clients, mutex, hub>>

\* Client.writePump: a frame of the channel is written to the socket; on the
\* closed and drained channel the pump ends and closes the socket.
writePump(c) ==
    /\ Alive
    /\ conn[c].w = "on"
    /\ conn[c].send # <<>> \/ conn[c].closed
    /\ conn' = IF conn[c].send # <<>>
               THEN WithClient(c, [conn[c] EXCEPT !.send = Tail(@)])
               ELSE WithClient(c, [conn[c] EXCEPT !.w = "done", !.sock = "closed"])
    /\ UNCHANGED <<soloVars, hasCache, session, leaderboards, games, clients, mutex, hub>>

NextHub ==
    \/ \E c \in Conns : RunRegister(c)
    \/ RunLock
    \/ RunRegisterInsert
    \/ \E c \in Conns : readError(c)
    \/ \E c \in Conns : RunUnregister(c)
    \/ RunUnregisterDelete
    \/ \E c \in Conns : \E f \in InboundFrames : readMessage(c, f)
    \/ \E c \in Conns : moveLookup(c)
    \/ \E c \in Conns : moveSave(c)
    \/ \E c \in Conns : newGameSave(c)
    \/ \E c \in Conns : handlerReply(c)
    \/ \E c \in Conns : handlerSendLock(c)
    \/ \E c \in Conns : handlerSendDelete(c)
    \/ \E c \in Conns : pushLookup(c)
    \/ \E c \in Conns : pushSend(c)
    \/ \E c \in Conns : pushSendLock(c)
    \/ \E c \in Conns : pushSendDelete(c)
    \/ \E c \in Conns : invalidateLeaderboards(c)
    \/ \E c \in Conns : writePump(c)

SpecHub == InitHub /\ [][NextHub]_vars

(***************************************************************************)
(* SpecBroadcast: the hub with a caller of Hub.broadcastLeaderboardUpdate   *)
(* and silent peers (the only call in the repository is commented out,     *)
(* handlers.go:349, so SpecHub has no broadcast)                           *)
(***************************************************************************)
\* Hub.Run receives the message that Hub.broadcastLeaderboardUpdate sends on
\* hub.broadcast.
RunBroadcast ==
    /\ Alive
    /\ hub.pc = "select"
    /\ hub' = HubAt("broadcast", 0)
    /\ UNCHANGED <<soloVars, hasCache, session, leaderboards, games, clients, mutex, conn>>

\* Hub.Run, broadcast case: h.mutex.RLock().
RunRLock ==
    /\ Alive
    /\ hub.pc = "broadcast"
    /\ CanRLock
    /\ mutex' = RLock(Run)
    /\ hub' = HubAt("broadcastLocked", 0)
    /\ UNCHANGED <<soloVars, hasCache, session, leaderboards, games, clients, conn>>

\* The clients of the map whose channel has no room for the broadcast.
Dead == {c \in clients : Len(conn[c].send) >= QueueCap}

\* Hub.Run, broadcast case: the loop over the map; the message is enqueued for
\* a client whose channel has room, the other clients' channels are closed and
\* the clients deleted from the map; a send on a closed channel panics.
RunBroadcastLoop ==
    /\ Alive
    /\ hub.pc = "broadcastLocked"
    /\ IF \E c \in clients : conn[c].closed
       THEN Panic(PanicSend) /\ UNCHANGED <<clients, conn>>
       ELSE /\ hub' = HubAt("broadcastDone", 0)
            /\ clients' = clients \ Dead
            /\ conn' = [c \in Conns |->
                           IF c \notin clients THEN conn[c]
                           ELSE IF c \in Dead THEN [conn[c] EXCEPT !.closed = TRUE]
                           ELSE [conn[c] EXCEPT !.send = Append(@, BroadcastFrame)]]
    /\ UNCHANGED <<soloVars, hasCache, session, leaderboards, games, mutex>>

\* Hub.Run, broadcast case: h.mutex.RUnlock().
RunRUnlock ==
    /\ Alive
    /\ hub.pc = "broadcastDone"
    /\ mutex' = RUnlock(Run)
    /\ hub' = HubAt("select", 0)
    /\ UNCHANGED <<soloVars, hasCache, session, leaderboards, games, clients, conn>>

NextBroadcast ==
    \/ \E c \in Conns : RunRegister(c)
    \/ RunLock
    \/ RunRegisterInsert
    \/ \E c \in Conns : readError(c)
    \/ \E c \in Conns : RunUnregister(c)
    \/ RunUnregisterDelete
    \/ \E c \in Conns : pushLookup(c)
    \/ \E c \in Conns : pushSend(c)
    \/ \E c \in Conns : pushSendLock(c)
    \/ \E c \in Conns : pushSendDelete(c)
    \/ \E c \in Conns : writePump(c)
    \/ RunBroadcast
    \/ RunRLock
    \/ RunBroadcastLoop
    \/ RunRUnlock

SpecBroadcast == InitHub /\ [][NextBroadcast]_vars

\* The scheduling of the goroutines: a goroutine that can run does; Go's select
\* chooses at random among its ready cases and sync.RWMutex does not starve a
\* waiter, so a receive of Hub.Run and an acquisition of the mutex that are
\* possible again and again happen. The arrival of a broadcast is not forced.
FairBroadcast ==
    /\ \A c \in Conns : /\ SF_vars(RunRegister(c))
                        /\ SF_vars(RunUnregister(c))
                        /\ WF_vars(pushLookup(c))
                        /\ WF_vars(pushSend(c))
                        /\ SF_vars(pushSendLock(c))
                        /\ WF_vars(pushSendDelete(c))
                        /\ WF_vars(writePump(c))
    /\ SF_vars(RunLock)
    /\ WF_vars(RunRegisterInsert)
    /\ WF_vars(RunUnregisterDelete)
    /\ SF_vars(RunRLock)
    /\ WF_vars(RunBroadcastLoop)
    /\ WF_vars(RunRUnlock)

SpecBroadcastFair == SpecBroadcast /\ FairBroadcast

(***************************************************************************)
(* SpecEngine: the engine's pure functions applied to bounded inputs       *)
(***************************************************************************)
RECURSIVE Pow2(_)
Pow2(e) == IF e = 0 THEN 1 ELSE 2 * Pow2(e - 1)

TileValues == {Pow2(e) : e \in 1 .. MaxExp}

InputLines == [Idx -> {0} \cup TileValues]

\* The input boards: an empty or a checkerboard base, as it is or with one
\* row replaced by an arbitrary line (the moves up and down see that line as
\* part of every column).
InputBoards ==
    {NewBoard, Checkerboard} \cup
    {[base EXCEPT ![row] = line] :
        base \in {NewBoard, Checkerboard}, row \in Idx, line \in InputLines}

InputCells == {NilCell} \cup {DisabledCell(row, col) : row \in Idx, col \in Idx}

InitEngine ==
    /\ gameState \in {InputSession(b, d) : b \in InputBoards, d \in InputCells}
    /\ call = NoCall
    /\ reply = ReplyNone
    /\ nCmds = 0
    /\ hasCache = FALSE
    /\ session = <<>>
    /\ leaderboards = {}
    /\ games = <<>>
    /\ gameID = 0
    /\ send = <<>>
    /\ pending = {}
    /\ nConns = 0
    /\ replaced = {}
    /\ cmd = NoCmd
    /\ clients = {}
    /\ mutex = NoLock
    /\ hub = HubAt("select", 0)
    /\ conn = <<>>

EngineMove(direction) ==
    /\ call.op = "none"
    /\ gameState.DisabledCell = NilCell
    /\ LET s == slideClassic(gameState.Board, direction)
       IN  \E d \in Draws(s.moved, Len(GetEmptyCells(s.board)), RandIdx) :
               call' = CallOf("Move", gameState.Board, direction, NilCell,
                              spawnAfterMove(s, d[1], d[2]), FALSE)
    /\ UNCHANGED <<gameState, reply, nCmds, hubVars>>

EngineMoveWithDisabledCell(direction) ==
    /\ call.op = "none"
    /\ gameState.DisabledCell # NilCell
    /\ LET disabledCell == gameState.DisabledCell
           s == slideWithDisabled(gameState.Board, direction, disabledCell)
       IN  \E d \in Draws(s.moved,
                          Len(GetEmptyCellsExcluding(s.board, disabledCell)), RandIdx) :
               call' = CallOf("MoveWithDisabledCell", gameState.Board, direction,
                              disabledCell,
                              spawnAfterMoveWithDisabled(s, disabledCell, d[1], d[2]),
                              FALSE)
    /\ UNCHANGED <<gameState, reply, nCmds, hubVars>>

EngineIsGameOver ==
    /\ call.op = "none"
    /\ gameState.DisabledCell = NilCell
    /\ call' = [NoCall EXCEPT !.op = "IsGameOver", !.board = gameState.Board,
                              !.over = IsGameOver(gameState.Board)]
    /\ UNCHANGED <<gameState, reply, nCmds, hubVars>>

EngineIsGameOverWithDisabledCell ==
    /\ call.op = "none"
    /\ gameState.DisabledCell # NilCell
    /\ call' = [NoCall EXCEPT !.op = "IsGameOverWithDisabledCell",
                              !.board = gameState.Board,
                              !.disabledCell = gameState.DisabledCell,
                              !.over = IsGameOverWithDisabledCell(
                                           gameState.Board, gameState.DisabledCell)]
    /\ UNCHANGED <<gameState, reply, nCmds, hubVars>>

NextEngine ==
    \/ \E direction \in DirectionSet : EngineMove(direction)
    \/ \E direction \in DirectionSet : EngineMoveWithDisabledCell(direction)
    \/ EngineIsGameOver
    \/ EngineIsGameOverWithDisabledCell

SpecEngine == InitEngine /\ [][NextEngine]_vars

(***************************************************************************)
(* Definitions used to state the properties                                *)
(***************************************************************************)
EngineMoved == call.op \in {"Move", "MoveWithDisabledCell"}

\* The cells of line f along a direction, from the leading edge.
LineCells(direction, f) ==
    CASE direction = DirectionLeft -> <<<<f, 0>>, <<f, 1>>, <<f, 2>>, <<f, 3>>>>
      [] direction = DirectionRight -> <<<<f, 3>>, <<f, 2>>, <<f, 1>>, <<f, 0>>>>
      [] direction = DirectionUp -> <<<<0, f>>, <<1, f>>, <<2, f>>, <<3, f>>>>
      [] direction = DirectionDown -> <<<<3, f>>, <<2, f>>, <<1, f>>, <<0, f>>>>

LineOf(b, direction, f) ==
    [k \in 1 .. 4 |-> b[LineCells(direction, f)[k][1]][LineCells(direction, f)[k][2]]]

Tiles(line) == SelectSeq(line, NonZero)

RECURSIVE RefMerge(_)
\* The reference merge of a line without zeros, from the leading edge.
RefMerge(t) ==
    IF Len(t) = 0 THEN <<>>
    ELSE IF Len(t) >= 2 /\ t[1] = t[2]
         THEN <<2 * t[1]>> \o RefMerge(Tail(Tail(t)))
         ELSE <<t[1]>> \o RefMerge(Tail(t))

RECURSIVE RefScore(_)
\* The sum of the tiles the reference merge produces by merging.
RefScore(t) ==
    IF Len(t) <= 1 THEN 0
    ELSE IF t[1] = t[2]
         THEN 2 * t[1] + RefScore(Tail(Tail(t)))
         ELSE RefScore(Tail(t))

\* Drop the zeros, merge, pad with zeros at the trailing edge.
RefLine(line) ==
    LET m == RefMerge(Tiles(line))
    IN  [k \in 1 .. 4 |-> IF k <= Len(m) THEN m[k] ELSE 0]

RECURSIVE SeqSum(_)
SeqSum(q) == IF Len(q) = 0 THEN 0 ELSE q[1] + SeqSum(Tail(q))

RECURSIVE OneMergeEach(_, _)
\* out is made of the tiles of t, in order, each kept as it is or merged with
\* its equal neighbour into one tile of double value: no tile is used twice.
OneMergeEach(t, out) ==
    \/ Len(t) = 0 /\ Len(out) = 0
    \/ /\ Len(t) >= 1 /\ Len(out) >= 1
       /\ out[1] = t[1]
       /\ OneMergeEach(Tail(t), Tail(out))
    \/ /\ Len(t) >= 2 /\ Len(out) >= 1
       /\ t[1] = t[2] /\ out[1] = 2 * t[1]
       /\ OneMergeEach(Tail(Tail(t)), Tail(out))

TileCount(b) == Cardinality({pos \in Idx \X Idx : b[pos[1]][pos[2]] # 0})

IsTile(v) == \E e \in 1 .. 17 : v = Pow2(e)

TilesOnly(b) == \A r \in Idx : \A c \in Idx : b[r][c] = 0 \/ IsTile(b[r][c])

DiffCells(b1, b2) == {pos \in Idx \X Idx : b1[pos[1]][pos[2]] # b2[pos[1]][pos[2]]}

\* The board whose row `row` is line and whose other cells are empty.
OnlyRow(row, line) == [NewBoard EXCEPT ![row] = [c \in Idx |-> line[c + 1]]]

(***************************************************************************)
(* C1. Classic Move, before the spawn, is the reference line operation on  *)
(* each of the four lines along the direction, and scoreGained is the sum  *)
(* of the tiles produced by merges.                                        *)
(***************************************************************************)
C1_MoveIsReference ==
    call.op = "Move" =>
        /\ \A f \in Idx :
               LineOf(call.slid, call.direction, f) =
                   RefLine(LineOf(call.board, call.direction, f))
        /\ call.scoreGained =
               SeqSum([k \in 1 .. 4 |->
                          RefScore(Tiles(LineOf(call.board, call.direction, k - 1)))])

C1_Witness ==
    /\ call.op = "Move"
    /\ call.direction = DirectionDown
    /\ call.scoreGained > 0
    /\ \E f \in Idx : LineOf(call.board, DirectionDown, f)[1] = 0

(***************************************************************************)
(* C2. For Move and MoveWithDisabledCell the moved flag is true exactly    *)
(* when a cell of the board after slide/merge differs from the input.      *)
(* (The code's moveLeftWithDisabled violates it.)                          *)
(***************************************************************************)
C2_MovedIffChanged ==
    EngineMoved => (call.moved <=> call.slid # call.board)

(***************************************************************************)
(* C3. Within one move a tile takes part in at most one merge; of three    *)
(* equal tiles only the pair nearest the leading edge merges: [x,x,x,0]    *)
(* becomes [2x,x,0,0] and [x,x,2x,0] becomes [2x,2x,0,0]; the row          *)
(* [2,2,2,0] alone on the board, moved left, scores 4.                     *)
(***************************************************************************)
C3_OneMergePerTile ==
    EngineMoved =>
        /\ \A f \in Idx :
               LET in == LineOf(call.board, call.direction, f)
                   out == LineOf(call.slid, call.direction, f)
               IN  /\ OneMergeEach(Tiles(in), Tiles(out))
                   /\ (in[1] # 0 /\ in = <<in[1], in[1], in[1], 0>>)
                          => out = <<2 * in[1], in[1], 0, 0>>
                   /\ (in[1] # 0 /\ in = <<in[1], in[1], 2 * in[1], 0>>)
                          => out = <<2 * in[1], 2 * in[1], 0, 0>>
        /\ \A row \in Idx :
               (call.board = OnlyRow(row, <<2, 2, 2, 0>>) /\ call.direction = DirectionLeft)
                   => (call.scoreGained = 4 /\ call.slid = OnlyRow(row, <<4, 2, 0, 0>>))

C3_Witness ==
    /\ call.op = "Move"
    /\ call.direction = DirectionLeft
    /\ call.board = OnlyRow(1, <<2, 2, 2, 0>>)
    /\ call.slid = OnlyRow(1, <<4, 2, 0, 0>>)
    /\ call.scoreGained = 4

(***************************************************************************)
(* C4. After MoveWithDisabledCell, before the spawn, in every line the     *)
(* cells on each side of the obstacle are compacted toward the leading     *)
(* edge of their segment, and a line without the obstacle is compacted as  *)
(* in classic Move. (The code leaves every tile at its column or row.)     *)
(***************************************************************************)
SegCompact(line, lo, hi) ==
    \A i \in lo .. hi : \A j \in lo .. hi : (i < j /\ line[i] = 0) => line[j] = 0

C4_SegmentsCompacted ==
    (call.op = "MoveWithDisabledCell" /\ call.disabledCell # NilCell) =>
        \A f \in Idx :
            LET cells == LineCells(call.direction, f)
                obstacle == <<call.disabledCell.Row, call.disabledCell.Col>>
                out == LineOf(call.slid, call.direction, f)
            IN  IF \E k \in 1 .. 4 : cells[k] = obstacle
                THEN LET k == CHOOSE j \in 1 .. 4 : cells[j] = obstacle
                     IN  SegCompact(out, 1, k - 1) /\ SegCompact(out, k + 1, 4)
                ELSE out = RefLine(LineOf(call.board, call.direction, f))

(***************************************************************************)
(* C5. Row [2,0,2,0] with the obstacle at column 1, moved left, comes back *)
(* unchanged with moved = false and scoreGained = 0, and the handler       *)
(* rejects the move instead of spawning a tile. (The code reports moved =  *)
(* true and the handler accepts the move and spawns.)                      *)
(***************************************************************************)
C5_ObstacleBarrier ==
    \A row \in Idx :
        (/\ call.op = "MoveWithDisabledCell"
         /\ call.direction = DirectionLeft
         /\ call.disabledCell = DisabledCell(row, 1)
         /\ call.board = OnlyRow(row, <<2, 0, 2, 0>>))
        => /\ call.slid = call.board
           /\ call.moved = FALSE
           /\ call.scoreGained = 0
           /\ call.newBoard = call.board
           /\ reply = ErrNoMove
           /\ gameState.Board = call.board

(***************************************************************************)
(* C6. Whenever Move or MoveWithDisabledCell returns moved = false, the    *)
(* returned board is the input board and scoreGained is 0.                 *)
(***************************************************************************)
C6_RejectionIsIdentity ==
    (EngineMoved /\ ~call.moved) =>
        /\ call.newBoard = call.board
        /\ call.slid = call.board
        /\ call.scoreGained = 0

C6_Witness ==
    /\ call.op = "MoveWithDisabledCell"
    /\ call.disabledCell # NilCell
    /\ call.direction = DirectionRight
    /\ ~call.moved
    /\ TileCount(call.board) >= 2
    /\ ~IsFull(call.board)

(***************************************************************************)
(* C7. Whenever Move or MoveWithDisabledCell returns moved = true, the     *)
(* returned board differs from the slid/merged board in exactly one cell,  *)
(* which was empty, is not the obstacle and now holds 2 or 4. (With the    *)
(* obstacle, a left move of a full board is reported as moved and finds    *)
(* no cell to spawn into.)                                                 *)
(***************************************************************************)
C7_ExactlyOneSpawn ==
    (EngineMoved /\ call.moved) =>
        \E pos \in Idx \X Idx :
            /\ DiffCells(call.slid, call.newBoard) = {pos}
            /\ call.slid[pos[1]][pos[2]] = 0
            /\ call.newBoard[pos[1]][pos[2]] \in {2, 4}
            /\ pos # <<call.disabledCell.Row, call.disabledCell.Col>>

(***************************************************************************)
(* C8. From NewGame/NewGameWithMode on, every non-zero cell of every       *)
(* board is a power of 2 that is at least 2; a move adds at most the one   *)
(* spawned tile, and before the spawn there are strictly fewer tiles       *)
(* whenever a merge occurred.                                              *)
(***************************************************************************)
C8_TilesArePowersOfTwo ==
    /\ TilesOnly(gameState.Board)
    /\ EngineMoved =>
           /\ TilesOnly(call.slid) /\ TilesOnly(call.newBoard)
           /\ TileCount(call.newBoard) <= TileCount(call.board) + 1
           /\ TileCount(call.slid) <= TileCount(call.board)
           /\ call.scoreGained > 0 => TileCount(call.slid) < TileCount(call.board)
           /\ call.moved => gameState.Board = call.newBoard

C8_Witness ==
    /\ EngineMoved
    /\ call.moved
    /\ call.scoreGained > 0
    /\ gameState.Board = call.newBoard
    /\ TileCount(call.newBoard) = TileCount(call.board)

(***************************************************************************)
(* C9. Classic IsGameOver is true exactly when the board has no empty cell *)
(* and no two horizontally or vertically adjacent cells hold equal values. *)
(***************************************************************************)
HasEmptyCell(b) == \E r \in Idx : \E c \in Idx : b[r][c] = 0

HasAdjacentEqual(b) ==
    \/ \E r \in Idx : \E c \in 0 .. 2 : b[r][c] = b[r][c + 1]
    \/ \E r \in 0 .. 2 : \E c \in Idx : b[r][c] = b[r + 1][c]

C9_GameOverIffStuck ==
    call.op = "IsGameOver" =>
        (call.over <=> (~HasEmptyCell(call.board) /\ ~HasAdjacentEqual(call.board)))

C9_Witness ==
    /\ call.op = "IsGameOver"
    /\ call.over
    /\ ~HasEmptyCell(call.board)

(***************************************************************************)
(* C10. IsGameOverWithDisabledCell is true exactly when every cell other   *)
(* than the obstacle is occupied and none of the four moves would change   *)
(* the board. (The code's left move reports moved = true on a board it     *)
(* leaves unchanged, so such a board is never reported as over.)           *)
(***************************************************************************)
C10_GameOverWithDisabledIffStuck ==
    (call.op = "IsGameOverWithDisabledCell" /\ call.disabledCell # NilCell) =>
        (call.over <=>
            /\ \A r \in Idx : \A c \in Idx :
                   call.board[r][c] # 0 \/ call.disabledCell = DisabledCell(r, c)
            /\ \A direction \in DirectionSet :
                   slideWithDisabled(call.board, direction, call.disabledCell).board
                       = call.board)

(***************************************************************************)
(* Definitions used to state the properties of sessions                    *)
(***************************************************************************)
\* The session of the cache entry and the sessions of the store.
CachedGames == IF session = <<>> THEN {} ELSE {GetGameSession(session).game}

StoredGames == {ToGameState(games[k]) : k \in 1 .. Len(games)}

\* Every copy of a session the server holds.
Sessions == ({gameState} \ {NoGame}) \cup CachedGames \cup StoredGames

ObstacleInGridAndEmpty(gs) ==
    IF gs.GameMode = GameModeChallenge
    THEN /\ gs.DisabledCell.Row \in Idx
         /\ gs.DisabledCell.Col \in Idx
         /\ gs.Board[gs.DisabledCell.Row][gs.DisabledCell.Col] = 0
    ELSE gs.DisabledCell = NilCell

(***************************************************************************)
(* C11. In a challenge session the obstacle lies inside the grid and its   *)
(* cell holds 0 in every board of the session, in the handler, the cache   *)
(* and the store; and the obstacle and the mode of a session never change  *)
(* from one step to the next.                                              *)
(***************************************************************************)
C11_ObstacleFixedAndEmpty ==
    /\ [](\A gs \in Sessions : ObstacleInGridAndEmpty(gs))
    /\ [][\A before \in Sessions : \A after \in Sessions' :
              before.ID = after.ID =>
                  /\ after.DisabledCell = before.DisabledCell
                  /\ after.GameMode = before.GameMode]_vars

C11_Witness ==
    /\ call.op = "MoveWithDisabledCell"
    /\ call.moved
    /\ call.scoreGained > 0
    /\ gameState.GameMode = GameModeChallenge
    /\ gameState.Board = call.newBoard
    /\ session = SetGameSession(gameState)
    /\ \E c \in Idx : c # gameState.DisabledCell.Col /\
           gameState.Board[gameState.DisabledCell.Row][c] # 0

Terminal(gs) == gs.GameOver \/ gs.Victory

\* The step is a handled new_game command (its session has a fresh id), or
\* a handled move command.
NewGameStep == nCmds' = nCmds + 1 /\ gameState'.ID = nCmds + 2

MoveStep == nCmds' = nCmds + 1 /\ gameState'.ID # nCmds + 2

\* Every copy of a terminal session in the cache and the store is the same
\* after the step, and its row stays in the store.
TerminalCopiesKept ==
    \A a \in CachedGames \cup StoredGames :
        Terminal(a) =>
            /\ \A b \in (CachedGames \cup StoredGames)' : b.ID = a.ID => b = a
            /\ a \in StoredGames => a \in StoredGames'

(***************************************************************************)
(* C12. Once the user's session is terminal, every later move command with *)
(* a valid direction is rejected, and the session's copies in the cache    *)
(* and the store never change again: the rejection is 'Game is already     *)
(* finished' as long as the lookup finds the session, and 'No active game  *)
(* found' on a new connection once the cache entry is lost.                *)
(***************************************************************************)
C12_FinishedIsImmutable ==
    [][/\ TerminalCopiesKept
       /\ (Terminal(gameState) /\ ~NewGameStep) =>
              /\ gameState' = gameState
              /\ (MoveStep /\ reply' # ErrInvalidDirection) =>
                     \/ reply' = ErrFinished
                     \/ reply' = ErrNoGame /\ session = <<>> /\ gameID = 0]_vars

C12_Witness ==
    /\ Terminal(gameState)
    /\ reply = ErrFinished
    /\ gameState \in StoredGames
    /\ gameState \in CachedGames
    /\ nCmds > 1

\* C12 as stated: the rejection is always 'Game is already finished'. (On a
\* new connection after the cache entry is lost it is 'No active game
\* found'.)
C12_FinishedRejectsWithFinished ==
    [][/\ TerminalCopiesKept
       /\ (Terminal(gameState) /\ ~NewGameStep) =>
              /\ gameState' = gameState
              /\ (MoveStep /\ reply' # ErrInvalidDirection) =>
                     reply' = ErrFinished]_vars

\* The step is a move command answered with an error frame.
RejectedMoveStep == MoveStep /\ reply' # ReplyGameState

C14_LatestGameIsCurrent ==
    (replaced # {} /\ ~Terminal(gameState)) =>
        /\ ~getCurrentGameState.err
        /\ getCurrentGameState.gameState.ID = gameState.ID
        /\ getCurrentGameState.gameState.ID \notin replaced

\* The frame carries the board, score and terminal flags of the session.
FrameShows(frame, gs) ==
    /\ frame.type = "game_state"
    /\ frame.board = gs.Board
    /\ frame.score = gs.Score
    /\ frame.gameOver = gs.GameOver
    /\ frame.victory = gs.Victory

(***************************************************************************)
(* C15. On a connection opened after the first one, once the push of the   *)
(* registration has run and before any command of the new connection is    *)
(* answered, the queue holds exactly one frame, a game_state with the      *)
(* board, score and flags of the session after the user's last accepted    *)
(* command; stated for a user who has a session whose cache entry, if      *)
(* there is a cache, is not lost. (Without a cache the accepted moves are  *)
(* not stored and the frame shows the board of the session's creation.)    *)
(***************************************************************************)
C15_ResumeShowsLastAccepted ==
    (/\ nConns >= 1
     /\ "sendCurrentGameState" \notin pending
     /\ gameState # NoGame
     /\ hasCache => session # <<>>
     /\ \A k \in 1 .. Len(send) : send[k].type = "game_state" /\ send[k].gameMode = "")
    => /\ Len(send) = 1
       /\ FrameShows(send[1], gameState)

(***************************************************************************)
(* C16. Every handled new_game command leaves the session it created in    *)
(* the durable store, and in the cache when there is one. (With a cache    *)
(* the session is written to the cache only.)                              *)
(***************************************************************************)
C16_NewGameIsStored ==
    [][NewGameStep =>
           /\ gameState' \in StoredGames'
           /\ hasCache => gameState' \in CachedGames']_vars

\* The step is a move command answered with a game_state frame.
AcceptedMoveStep == MoveStep /\ reply' = ReplyGameState

(***************************************************************************)
(* C17. A move command changes the durable store exactly when it is        *)
(* accepted and leaves the session terminal, and then the store holds the  *)
(* terminal session; an accepted move that leaves the session non-terminal *)
(* leaves the store as it was.                                             *)
(***************************************************************************)
C17_StoreWrittenOnlyAtEnd ==
    [][MoveStep =>
           /\ games' # games <=> (AcceptedMoveStep /\ Terminal(gameState'))
           /\ games' # games => gameState' \in StoredGames']_vars

C17_Witness ==
    /\ reply = ReplyGameState
    /\ EngineMoved
    /\ call.moved
    /\ gameState.Board = call.newBoard
    /\ ~Terminal(gameState)
    /\ games # <<>>
    /\ gameState \notin StoredGames

(***************************************************************************)
(* C18. Without a cache as with one, every accepted move is applied to the *)
(* board of the session after the previous accepted command, its score is  *)
(* added to that session's score, and the lookup after it returns its      *)
(* result. (Without a cache the result of a move that does not finish the  *)
(* game is saved nowhere: the lookup returns the session as it was         *)
(* created.)                                                               *)
(***************************************************************************)
C18_NoCacheSameSessionState ==
    /\ [][AcceptedMoveStep =>
              /\ call'.board = gameState.Board
              /\ gameState'.ID = gameState.ID
              /\ gameState'.Score = gameState.Score + call'.scoreGained]_vars
    /\ []((reply = ReplyGameState /\ EngineMoved /\ call.moved
           /\ (hasCache => session # <<>>))
          => /\ ~getCurrentGameState.err
             /\ getCurrentGameState.gameState = gameState)

(***************************************************************************)
(* C19. The game_state frame of every accepted move carries the score of   *)
(* the session after the previous accepted command plus the score gained   *)
(* by the move, which is never less than the score before. (Without a      *)
(* cache the frame carries the score at creation plus the score gained.)   *)
(***************************************************************************)
C19_ScoreNeverDecreases ==
    [][AcceptedMoveStep =>
           LET frame == send'[Len(send')] IN
               /\ frame.type = "game_state"
               /\ call'.scoreGained >= 0
               /\ frame.score = gameState.Score + call'.scoreGained
               /\ frame.score >= gameState.Score]_vars

CommandStep == nCmds' = nCmds + 1

LeaderboardsTriggered ==
    "updateLeaderboards" \in pending' /\ "updateLeaderboards" \notin pending

SessionAbsent == CachedGames = {} /\ StoredGames = {}

CommandOf(type) == CommandStep /\ cmd'.type = type

EngineCalledStep ==
    /\ CommandOf("move")
    /\ reply' \notin {ErrInvalidDirection, ErrGetState, ErrNoGame, ErrFinished}

\* A move command whose engine call moved tiles and left the board won or
\* without a possible move.
FinishingMoveStep ==
    /\ EngineCalledStep
    /\ call'.moved
    /\ call'.over \/ IsVictory(call'.newBoard)

UnsavedFinished == {g \in CachedGames : Terminal(g) /\ g \notin StoredGames}

(***************************************************************************)
(* C25. A finished session whose write to the store failed is written      *)
(* again: the next move command with a valid direction whose lookup        *)
(* succeeds and whose writes to the store succeed leaves the finished      *)
(* session in the store. (No command writes it: a move on the finished     *)
(* session is rejected before any write.)                                  *)
(***************************************************************************)
C25_FailedFinalWriteIsRetried ==
    [][(/\ CommandOf("move")
        /\ cmd'.dbWrite
        /\ reply' \notin {ErrInvalidDirection, ErrGetState})
           => \A g \in UnsavedFinished : g \in StoredGames']_vars

\* A frame that is not valid JSON, or of an unknown type, or a move with an
\* invalid direction, or a get_leaderboard with an invalid type.
IsProtocolError(f) ==
    \/ ~f.json
    \/ f.type \notin {"move", "new_game", "get_leaderboard"}
    \/ f.type = "move" /\ f.arg \notin DirectionSet
    \/ f.type = "get_leaderboard" /\ f.arg \notin LeaderboardTypes

ProtocolErrors == {ErrFormat, ErrUnknownType, ErrInvalidDirection, ErrLeaderboardType}

\* Connection c reads a protocol error, or answers it on an outbound queue
\* with room.
HandlesProtocolError(c) ==
    /\ conn[c].pump # conn'[c].pump
    /\ \/ conn[c].pump = "read" /\ conn'[c].nRead # conn[c].nRead
          /\ IsProtocolError(conn'[c].in)
       \/ conn[c].pump = "reply" /\ IsProtocolError(conn[c].in)
          /\ Len(conn[c].send) < QueueCap /\ Alive'

ReadsFrame(c) == conn'[c].nRead = conn[c].nRead + 1

\* Connection c answers a frame: its handler reaches sendMessage.
AnswersFrame(c) == Len(conn'[c].log) = Len(conn[c].log) + 1

\* The handler of connection c reads or writes the cache or the store.
HandlerStorageStep(c) ==
    conn[c].pump \in {"lookup", "save", "create"} /\ conn'[c].pump # conn[c].pump

\* C27: the commands of a connection are handled one at a time: a frame is read
\* only when every frame read before has been answered and no handler is
\* running; the storage reads and writes of a handler and its answer are for
\* the frame read last, so the answers are enqueued in the order of the reads.
C27_CommandsOneAtATime ==
    [][\A c \in Conns :
         /\ ReadsFrame(c) =>
              /\ conn[c].pump = "read"
              /\ conn[c].in = NoFrame /\ conn[c].out = <<>>
              /\ Len(conn[c].log) = conn[c].nRead
              /\ conn'[c].in # NoFrame
              /\ conn'[c].pump # "read"
         /\ HandlerStorageStep(c) =>
              /\ Len(conn[c].log) = conn[c].nRead - 1
              /\ conn'[c].nRead = conn[c].nRead
         /\ AnswersFrame(c) =>
              /\ conn[c].pump = "reply"
              /\ Len(conn'[c].log) = conn[c].nRead
              /\ conn'[c].log[conn[c].nRead].n = conn[c].nRead
              /\ conn'[c].log[conn[c].nRead].sent =>
                   conn'[c].send = Append(conn[c].send, conn'[c].log[conn[c].nRead].frame)
         /\ ~AnswersFrame(c) => conn'[c].log = conn[c].log]_vars

\* A connection has read two moves and enqueued their two answers, which show
\* different boards.
C27_Witness ==
    \E c \in Conns :
        /\ conn[c].nRead = 2
        /\ Len(conn[c].log) = 2
        /\ \A k \in 1 .. 2 : conn[c].log[k].sent /\ conn[c].log[k].frame.type = "game_state"
        /\ conn[c].log[1].frame.board # conn[c].log[2].frame.board

\* The connections whose move handler has read the user's session and has not
\* yet written it back.
Updating == {c \in Conns : conn[c].pump = "save"}

\* C28: at any time at most one command handler of the user is between reading
\* the user's session and writing it back, also when the user has several
\* connections open.
C28_OneUpdateAtATime == Cardinality(Updating) <= 1

\* C29: every mutation of the hub's connection map (the insert of register,
\* the deletes of unregister, of the broadcast and of a full outbound queue)
\* is performed while the hub mutex is held in write mode.
C29_MapMutatedUnderWriteLock ==
    [][clients' # clients => mutex.writer # NoOne]_vars

\* The goroutine that holds the hub mutex in write mode takes a step.
HolderSteps ==
    \/ mutex.writer = Run /\ hub' # hub
    \/ \E c \in Conns : mutex.writer = ReadPump(c) /\ conn'[c].pump # conn[c].pump
    \/ \E c \in Conns : mutex.writer = Push(c) /\ conn'[c].push # conn[c].push

\* C30: the hub mutex is held only around the map mutation: the goroutine that
\* holds it is at the mutation and nowhere else, and its next step is the
\* insert or delete, which releases the mutex without a cache call, a store
\* call or a socket operation.
C30_LockOnlyAroundMapMutation ==
    [][/\ mutex.writer = Run => hub.pc \in {"registerLocked", "unregisterLocked"}
       /\ mutex.readers # {} => mutex.readers = {Run} /\ hub.pc \in {"broadcastLocked", "broadcastDone"}
       /\ \A c \in Conns :
            /\ mutex.writer = ReadPump(c) => conn[c].pump = "sendLocked"
            /\ mutex.writer = Push(c) => conn[c].push = "sendLocked"
       /\ HolderSteps /\ Alive' =>
            /\ mutex' = NoLock
            /\ session' = session /\ games' = games /\ leaderboards' = leaderboards
            /\ \A c \in Conns : /\ conn'[c].sock = conn[c].sock
                                /\ conn'[c].send = conn[c].send
                                /\ conn'[c].nRead = conn[c].nRead]_vars

\* Hub.Run holds the mutex for a registration while the handler of a
\* connection is at a cache or store call.
C30_Witness ==
    /\ mutex.writer = Run
    /\ \E c \in Conns : conn[c].pump \in {"lookup", "save", "create"}

\* The goroutines about to read or write client.gameID of connection c with no
\* lock and no channel between them: sendCurrentGameState when it finds a
\* session (hub.go:211) and the handlers of readPump (getCurrentGameState,
\* handleNewGame).
GameIDAccessors(c) ==
    (IF conn[c].push = "lookup" /\ CachedGames \cup StoredGames # {}
     THEN {Push(c)}
     ELSE {})
        \cup (IF conn[c].pump \in {"lookup", "create"} THEN {ReadPump(c)} ELSE {})

\* The goroutines about to call the engine of the hub, whose random source
\* (Engine.rng) they draw from with no lock: Move in handleMove and NewGame in
\* handleNewGame.
RngAccessors == {ReadPump(c) : c \in {k \in Conns : conn[k].pump \in {"lookup", "create"}}}

\* C31: no variable other than the hub's connection map is accessed by two
\* goroutines without an order between the accesses: neither client.gameID
\* nor the random source of the engine has two goroutines at an access at the
\* same time.
C31_OnlyTheMapIsShared ==
    /\ \A c \in Conns : Cardinality(GameIDAccessors(c)) <= 1
    /\ Cardinality(RngAccessors) <= 1

\* Hub.Run runs the loop of the broadcast case (a panic of another goroutine
\* is not a step of the loop).
BroadcastLoopStep ==
    /\ hub.pc = "broadcastLocked"
    /\ hub' # hub
    /\ ~Alive' => \E c \in clients : conn[c].closed

\* sendMessage of sendCurrentGameState finds the channel of connection c full.
PushFindsFull(c) ==
    /\ conn[c].push = "send" /\ conn'[c].push # "send"
    /\ Len(conn[c].send) >= QueueCap

\* C32: enqueueing never blocks the sender: the broadcast closes the queue of
\* every registered connection whose queue is full and removes it from the
\* map, enqueues the message for every other registered connection and goes
\* on; sendMessage on a full queue closes the queue, then removes the
\* connection from the map, and returns.
C32_FullQueueIsDropped ==
    [][/\ BroadcastLoopStep =>
            /\ hub'.pc = "broadcastDone"
            /\ clients' = clients \ Dead
            /\ \A c \in Dead : conn'[c].closed
            /\ \A c \in clients \ Dead :
                 conn'[c].send = Append(conn[c].send, BroadcastFrame)
       /\ \A c \in Conns :
            /\ PushFindsFull(c) =>
                 /\ Alive'
                 /\ conn'[c].closed /\ conn'[c].send = conn[c].send
                 /\ conn'[c].push = "sendLock"
            /\ conn[c].push = "sendLocked" /\ conn'[c].push # "sendLocked" =>
                 c \notin clients' /\ conn'[c].push = "done"]_vars

\* The read loop of connection c has ended.
ReadLoopEnded(c) == conn[c].pump \in {"unregister", "done"}

\* Connection c is out of the map, its channel is closed and its writePump has
\* ended.
CleanedUp(c) == c \notin clients /\ conn[c].closed /\ conn[c].w = "done"

\* C33: when the read loop of a connection ends, the connection is eventually
\* removed from the hub's map, its channel closed and its write loop ended,
\* under fair scheduling.
C33_ClosedConnectionIsCleanedUp ==
    \A c \in Conns : ReadLoopEnded(c) ~> CleanedUp(c)

\* sendCurrentGameState runs.
PushStep ==
    "sendCurrentGameState" \in pending /\ "sendCurrentGameState" \notin pending'

\* C34: the push of a registration sends a game_state frame only for a session
\* that is neither game over nor won, and nothing when the user has no session.
C34_PushOnlyActiveSession ==
    [][PushStep =>
         /\ send' # send =>
              /\ send' = Append(send, send'[Len(send')])
              /\ send'[Len(send')].type = "game_state"
              /\ ~send'[Len(send')].gameOver
              /\ ~send'[Len(send')].victory
         /\ CachedGames \cup StoredGames = {} => send' = send]_vars

\* The cells of board b that hold a tile.
TileCells(b) == {cell \in Idx \X Idx : b[cell[1]][cell[2]] # 0}

\* C35: the board of a new game has exactly two tiles, each 2 or 4, on two
\* distinct cells, and 0 elsewhere; a challenge game has one obstacle cell
\* inside the grid with no tile on it, a classic game has no obstacle.
C35_NewGameHasTwoTiles ==
    [][NewGameStep /\ reply' = ReplyGameState =>
         LET b == gameState'.Board
             d == gameState'.DisabledCell
         IN  /\ Cardinality(TileCells(b)) = 2
             /\ \A cell \in TileCells(b) : b[cell[1]][cell[2]] \in {2, 4}
             /\ IF gameState'.GameMode = GameModeChallenge
                THEN /\ d # NilCell
                     /\ d.Row \in Idx /\ d.Col \in Idx
                     /\ <<d.Row, d.Col>> \notin TileCells(b)
                ELSE d = NilCell]_vars

\* A challenge game has just been created whose obstacle is the first cell of
\* the grid, next to a tile 4.
C35_Witness ==
    /\ nCmds = 1
    /\ reply = ReplyGameState
    /\ gameState.ID = 2
    /\ gameState.GameMode = GameModeChallenge
    /\ gameState.DisabledCell = DisabledCell(0, 0)
    /\ gameState.Board[0][1] = 4

\* Board b has a cell equal to 16384.
Has16384(b) == \E cell \in Idx \X Idx : b[cell[1]][cell[2]] = 16384

C37_QueueClosedOnce == hub.pc # PanicClose

\* C38: no message is enqueued on a channel that has been closed: neither the
\* push of a registration nor a handler of the read loop calls sendMessage on
\* it, so the process never ends with the panic of a send on a closed
\* channel.
C38_NoSendOnClosedQueue == hub.pc # PanicSend

\* sendCurrentGameState of connection c sets client.gameID and calls
\* sendMessage.
PushSends(c) == conn[c].push = "send" /\ conn'[c].push # "send"

\* C39: the push of a registration is never stale: when it sets client.gameID
\* and enqueues its frame, the session it pushes is the user's current
\* session, so no frame of an older session follows the answer of a later
\* new_game or move and the gameID is not set back to a superseded session.
C39_PushIsNotStale ==
    [][\A c \in Conns :
         PushSends(c) =>
           /\ conn[c].pushed \in CachedGames
           /\ \A g \in CachedGames : conn'[c].gameID = g.ID]_vars

\* C40: after every accepted move the lookup of the user's session (cache
\* first, then store) succeeds and returns the board, score and flags of the
\* game_state frame just sent, also when the cache write of the move failed;
\* stated for a server with a cache.
C40_FrameIsAuthoritative ==
    [][hasCache /\ CommandOf("move") /\ reply' = ReplyGameState =>
         /\ ~(getCurrentGameState.err)'
         /\ FrameShows(send'[Len(send')], (getCurrentGameState.gameState)')]_vars

====
